---- MODULE Spec2Model ----
(***************************************************************************)
(* Energy aggregation and reporting of the CEP backend.                    *)
(*                                                                         *)
(* Two persistence bindings are modelled side by side; the variable        *)
(* `variant` says which one a deployment runs:                             *)
(*   "raw" - app/routers/energy.py and app/routers/ai_recommendations.py   *)
(*           (Mongo driver, collections users / devices / energy_data)     *)
(*   "odm" - app/routers/energy_mongo.py (document mapper)                 *)
(*                                                                         *)
(* Modelling conventions                                                   *)
(*   - An Optional value is a sequence: <<>> is None, <<v>> is the value.  *)
(*   - Energy, cost and power are integers (a fixed-point unit); an        *)
(*     average or a percentage is an exact fraction <<num, den>> in        *)
(*     lowest terms, den > 0.  Floating-point rounding is not modelled.    *)
(*   - A timestamp is a number of ticks since 2023-01-01T00:00 UTC, with   *)
(*     TicksPerDay ticks in a calendar day.                                *)
(*   - The store executes an aggregation pipeline stage by stage over the  *)
(*     collection in storage order; a handler is one atomic step (its      *)
(*     reads of the clock are not separated by a suspension point).        *)
(***************************************************************************)
EXTENDS Integers, Sequences, FiniteSets, TLC

VARIABLES variant, users, devices, energy_data, now, resp, inflight, oids, mongo

vars == <<variant, users, devices, energy_data, now, resp, inflight, oids, mongo>>

(***************************************************************************)
(* Bounds of the model.                                                    *)
(***************************************************************************)
MaxReadings == 2

MaxDailyReadings == 3

MaxCompareReadings == 2

MaxTicks == 1

TicksPerDay == 2

StartDay == 365

\* handlers that may be suspended at the same time
MaxInFlight == 2

MaxAIReadings == 2

\* readings stored by the step-by-step specifications
MaxStepReadings == 2

MaxAggregateReadings == 2

\* readings stored before a prompt is built: one more than the larger sample
MaxSampleReadings == 11

(***************************************************************************)
(* Program constants.                                                      *)
(***************************************************************************)
DefaultWindowDays == 30

EpochYear == 2023

None == <<>>

Some(v) == <<v>>

IsSome(o) == Len(o) = 1

Get(o) == o[1]

(***************************************************************************)
(* Exact fractions.                                                        *)
(***************************************************************************)
Abs(n) == IF n < 0 THEN -n ELSE n

RECURSIVE GCD(_, _)
GCD(a, b) == IF b = 0 THEN a ELSE GCD(b, a % b)

\* n / d for d > 0, in lowest terms
Rat(n, d) ==
    LET g == GCD(Abs(n), d)
    IN  IF n >= 0 THEN <<n \div g, d \div g>>
                  ELSE <<-(Abs(n) \div g), d \div g>>

Zero == Rat(0, 1)

(***************************************************************************)
(* Calendar: timedelta(days=n), $year / $month / $dayOfMonth,              *)
(* $dateToString and the f-string date formatting.                         *)
(***************************************************************************)
Days(n) == n * TicksPerDay

IsLeap(y) == (y % 4 = 0 /\ y % 100 # 0) \/ y % 400 = 0

DaysInYear(y) == IF IsLeap(y) THEN 366 ELSE 365

DaysInMonth(y, m) ==
    IF m = 2 THEN (IF IsLeap(y) THEN 29 ELSE 28)
    ELSE IF m \in {4, 6, 9, 11} THEN 30 ELSE 31

RECURSIVE YearOfDay(_, _)
YearOfDay(d, y) ==
    IF d >= DaysInYear(y) THEN YearOfDay(d - DaysInYear(y), y + 1)
    ELSE [year |-> y, rest |-> d]

RECURSIVE MonthOfDay(_, _, _)
MonthOfDay(d, y, m) ==
    IF d >= DaysInMonth(y, m) THEN MonthOfDay(d - DaysInMonth(y, m), y, m + 1)
    ELSE [month |-> m, day |-> d + 1]

\* the calendar day (UTC) a timestamp falls on, counted from the epoch
DayIndex(ts) == ts \div TicksPerDay

\* $year, $month, $dayOfMonth of a timestamp
DateParts(ts) ==
    LET yr == YearOfDay(DayIndex(ts), EpochYear)
        md == MonthOfDay(yr.rest, yr.year, 1)
    IN  [year |-> yr.year, month |-> md.month, day |-> md.day]

\* a string is the sequence of its character codes
Digit(n) == 48 + n

Dash == 45

\* str(n): decimal digits without padding
RECURSIVE IntStr(_)
IntStr(n) == IF n < 10 THEN <<Digit(n)>> ELSE IntStr(n \div 10) \o <<Digit(n % 10)>>

\* f"{n:02d}" and strftime's %m / %d
Pad2(n) == IF n < 10 THEN <<Digit(0), Digit(n)>> ELSE IntStr(n)

\* f"{year}-{month:02d}-{day:02d}"
FormatDate(p) == IntStr(p.year) \o <<Dash>> \o Pad2(p.month) \o <<Dash>> \o Pad2(p.day)

\* $dateToString with format "%Y-%m-%d"
DateToString(ts) == FormatDate(DateParts(ts))

\* string comparison of the store ($sort on a string key): by code points
RECURSIVE StrLess(_, _)
StrLess(a, b) ==
    IF b = <<>> THEN FALSE
    ELSE IF a = <<>> THEN TRUE
    ELSE IF a[1] # b[1] THEN a[1] < b[1]
    ELSE StrLess(Tail(a), Tail(b))

\* comparison of two {year, month, day} documents ($sort on a document key):
\* field by field in the order the fields were written
PartsLess(a, b) ==
    \/ a.year < b.year
    \/ a.year = b.year /\ a.month < b.month
    \/ a.year = b.year /\ a.month = b.month /\ a.day < b.day

(***************************************************************************)
(* Identifiers.  The store is seeded with two users and three devices      *)
(* (the setup scripts create users and devices before readings arrive);    *)
(* UnknownUser and UnknownDevice are ids no stored document has.           *)
(***************************************************************************)
UnknownUser == "u9"

UnknownDevice == "d9"

SeedUsers == {"u1", "u2"}

SeedDevices == [d \in {"d1", "d2", "d3"} |-> IF d = "d3" THEN "u2" ELSE "u1"]

\* the identity of the seeded users
SeedIdentity ==
    [u \in SeedUsers |->
        IF u = "u1" THEN [email |-> "ann@example.com", username |-> "ann"]
        ELSE [email |-> "bob@example.com", username |-> "bob"]]

\* the ids the store hands out, in order (an ObjectId is never handed out
\* twice); the first ones are those of the seeded documents
UserIds == <<"u1", "u2", "u3", "u4", "u5">>

DeviceIds == <<"d1", "d2", "d3", "d4", "d5", "d6">>

\* the handlers' slots: a request is served in one of them, and a handler
\* suspended at an await leaves the others free to run
Procs == 1..MaxInFlight

Idle == [pc |-> "idle"]

Variants == {"raw", "odm"}

\* the instant the model starts at: noon of day StartDay
T0 == StartDay * TicksPerDay + 1

(***************************************************************************)
(* Aggregation operators of the store.                                     *)
(***************************************************************************)
RECURSIVE SumSeq(_)
SumSeq(s) == IF s = <<>> THEN 0 ELSE s[1] + SumSeq(Tail(s))

\* {"$ifNull": [x, d]}
IfNull(o, d) == IF IsSome(o) THEN Get(o) ELSE d

\* the values of a sequence of Optionals that are not null
RECURSIVE NonNull(_)
NonNull(s) ==
    IF s = <<>> THEN <<>>
    ELSE (IF IsSome(s[1]) THEN <<Get(s[1])>> ELSE <<>>) \o NonNull(Tail(s))

RECURSIVE MaxSeq(_)
MaxSeq(s) ==
    IF Len(s) = 1 THEN s[1]
    ELSE LET m == MaxSeq(Tail(s)) IN IF s[1] >= m THEN s[1] ELSE m

\* $sum over a field that may be null: a null is not a number and is skipped
SumOpt(s) == SumSeq(NonNull(s))

\* variation of $avg: a null counted as a reading of 0
AvgOptNullAsZero(s) ==
    IF s = <<>> THEN None ELSE Some(Rat(SumSeq(NonNull(s)), Len(s)))

\* $avg: the mean of the non-null values, null when there is none
AvgOpt(s) ==
    LET v == NonNull(s)
    IN  IF v = <<>> THEN None ELSE Some(Rat(SumSeq(v), Len(v)))

\* variation of $max: $last, the non-null value of the last document
LastOpt(s) ==
    LET v == NonNull(s)
    IN  IF v = <<>> THEN None ELSE Some(v[Len(v)])

\* $max: the greatest non-null value, null when there is none
MaxOpt(s) ==
    LET v == NonNull(s)
    IN  IF v = <<>> THEN None ELSE Some(MaxSeq(v))

Field(docs, f) == [i \in 1..Len(docs) |-> docs[i][f]]

\* variations of the $match filter: no user filter; exclusive lower bound
InRangeAnyUser(r, user_id, start_date, end_date) ==
    /\ r.timestamp >= start_date
    /\ r.timestamp <= end_date

InRangeOpenStart(r, user_id, start_date, end_date) ==
    /\ r.user_id = user_id
    /\ r.timestamp > start_date
    /\ r.timestamp <= end_date

InRange(r, user_id, start_date, end_date) ==
    /\ r.user_id = user_id
    /\ r.timestamp >= start_date
    /\ r.timestamp <= end_date

\* {"$match": {"user_id": user_id, "timestamp": {"$gte": start, "$lte": end}}}
Match(coll, user_id, start_date, end_date) ==
    SelectSeq(coll, LAMBDA r : InRange(r, user_id, start_date, end_date))

\* {"$group": {"_id": None, ...}} of energy.py and ai_recommendations.py:
\* no output document for an empty input
GroupStats(docs) ==
    IF docs = <<>> THEN <<>>
    ELSE << [ total_energy_consumed |-> SumSeq(Field(docs, "energy_consumption_kwh")),
              total_energy_produced |-> SumSeq(Field(docs, "energy_production_kwh")),
              total_cost |->
                  SumSeq([i \in 1..Len(docs) |-> IfNull(docs[i].total_cost, 0)]),
              average_power_consumption |->
                  AvgOpt(Field(docs, "power_consumption_watts")),
              peak_power_consumption |->
                  MaxOpt(Field(docs, "power_consumption_watts")),
              data_points_count |-> Len(docs) ] >>

\* $group and $project of energy_mongo.py: $addToSet of the device ids, $size
GroupStatsMongo(docs) ==
    IF docs = <<>> THEN <<>>
    ELSE << [ total_consumption |-> SumSeq(Field(docs, "energy_consumption_kwh")),
              total_production |-> SumSeq(Field(docs, "energy_production_kwh")),
              total_cost |-> SumOpt(Field(docs, "total_cost")),
              avg_power |-> AvgOpt(Field(docs, "power_consumption_watts")),
              peak_power |-> MaxOpt(Field(docs, "power_consumption_watts")),
              device_count |->
                  Cardinality({docs[i].device_id : i \in 1..Len(docs)}) ] >>

(***************************************************************************)
(* State.                                                                  *)
(***************************************************************************)
NoResponse == [op |-> "none", status |-> 0]

NotFound(op, what) == [op |-> op, status |-> 404, detail |-> what]

\* the user document create_user writes from a request body
NewUser(user) ==
    [ email |-> user.email, username |-> user.username,
      is_active |-> TRUE, device_count |-> 0,
      total_energy_consumed |-> 0, total_energy_produced |-> 0 ]

NewDevice(user_id) ==
    [ user_id |-> user_id, is_active |-> TRUE,
      total_energy_consumed |-> 0, total_energy_produced |-> 0,
      current_power_draw |-> None, last_energy_reading |-> None,
      last_seen |-> None ]

\* database.py: the module's globals and the ODM once connect_to_mongo and
\* init_db have run, in a process that serves requests
Connected ==
    [ program |-> "app", pc |-> "serving", mongodb_client |-> "open",
      mongodb_database |-> "set", beanie |-> "set" ]

\* database.py:10-11 at the start of a program: the API (app/main.py), which
\* begins with init_db, or the setup script (create_mongodb.py), which begins
\* with connect_to_mongo
Started(program) ==
    [ program |-> program,
      pc |-> IF program = "app" THEN "init_db" ELSE "connect_to_mongo",
      mongodb_client |-> "unset", mongodb_database |-> "unset",
      beanie |-> "uninitialised" ]

InitStore ==
    /\ variant \in Variants
    /\ users = [u \in SeedUsers |-> [NewUser(SeedIdentity[u]) EXCEPT !.device_count =
                   Cardinality({d \in DOMAIN SeedDevices : SeedDevices[d] = u})]]
    /\ devices = [d \in DOMAIN SeedDevices |-> NewDevice(SeedDevices[d])]
    /\ energy_data = <<>>
    /\ now = T0
    /\ resp = NoResponse
    /\ inflight = [p \in Procs |-> Idle]
    /\ oids = [users |-> Cardinality(SeedUsers),
               devices |-> Cardinality(DOMAIN SeedDevices)]

\* the handlers are modelled over a store that has been connected
Init == InitStore /\ mongo = Connected

\* the clock advances between requests
Tick ==
    /\ now < T0 + MaxTicks
    /\ now' = now + 1
    /\ UNCHANGED <<inflight, oids, variant, users, devices, energy_data, resp, mongo>>

(***************************************************************************)
(* Ingestion.  A request body `in` carries the measured values and an      *)
(* Optional timestamp (default: the clock).                                *)
(***************************************************************************)
Reading(device_id, user_id, in) ==
    [ device_id |-> device_id,
      user_id |-> user_id,
      timestamp |-> IfNull(in.timestamp, now),
      energy_consumption_kwh |-> in.energy_consumption_kwh,
      energy_production_kwh |-> in.energy_production_kwh,
      total_cost |-> in.total_cost,
      power_consumption_watts |-> in.power_consumption_watts,
      humidity |-> in.humidity ]

\* variation of the ingestion: the device keeps the reading with the greatest
\* timestamp as its latest one
CreateEnergyDataNewest(device_id, in) ==
    /\ variant = "raw"
    /\ IF device_id \notin DOMAIN devices
       THEN /\ resp' = NotFound("create_energy_data", "Device not found")
            /\ UNCHANGED <<users, devices, energy_data>>
       ELSE LET device == devices[device_id]
                data == Reading(device_id, device.user_id, in)
                newer == \/ device.last_energy_reading = None
                         \/ data.timestamp >= Get(device.last_energy_reading)
            IN  /\ energy_data' = Append(energy_data, data)
                /\ devices' = [devices EXCEPT ![device_id] =
                       [@ EXCEPT
                          !.total_energy_consumed = @ + data.energy_consumption_kwh,
                          !.total_energy_produced = @ + data.energy_production_kwh,
                          !.current_power_draw =
                              IF newer THEN data.power_consumption_watts ELSE @,
                          !.last_energy_reading =
                              IF newer THEN Some(data.timestamp) ELSE @]]
                /\ users' = IF device.user_id \in DOMAIN users
                            THEN [users EXCEPT ![device.user_id] =
                                   [@ EXCEPT
                                      !.total_energy_consumed =
                                          @ + data.energy_consumption_kwh,
                                      !.total_energy_produced =
                                          @ + data.energy_production_kwh]]
                            ELSE users
                /\ resp' = [op |-> "create_energy_data", status |-> 200, body |-> data]
    /\ UNCHANGED <<inflight, oids, variant, now, mongo>>

\* energy.py: POST /devices/{device_id}/energy-data/
CreateEnergyData(device_id, in) ==
    /\ variant = "raw"
    /\ IF device_id \notin DOMAIN devices
       THEN /\ resp' = NotFound("create_energy_data", "Device not found")
            /\ UNCHANGED <<users, devices, energy_data>>
       ELSE LET device == devices[device_id]
                data == Reading(device_id, device.user_id, in)
            IN  /\ energy_data' = Append(energy_data, data)
                /\ devices' = [devices EXCEPT ![device_id] =
                       [@ EXCEPT
                          !.total_energy_consumed = @ + data.energy_consumption_kwh,
                          !.total_energy_produced = @ + data.energy_production_kwh,
                          !.current_power_draw = data.power_consumption_watts,
                          !.last_energy_reading = Some(data.timestamp)]]
                /\ users' = IF device.user_id \in DOMAIN users
                            THEN [users EXCEPT ![device.user_id] =
                                   [@ EXCEPT
                                      !.total_energy_consumed =
                                          @ + data.energy_consumption_kwh,
                                      !.total_energy_produced =
                                          @ + data.energy_production_kwh]]
                            ELSE users
                /\ resp' = [op |-> "create_energy_data", status |-> 200, body |-> data]
    /\ UNCHANGED <<inflight, oids, variant, now, mongo>>

\* variation of the ingestion of energy_mongo.py: last_seen is written before
\* the device's activity is looked at
CreateEnergyDataMongoTouching(device_id, in) ==
    /\ variant = "odm"
    /\ IF device_id \notin DOMAIN devices
       THEN /\ resp' = NotFound("create_energy_data", "Device not found")
            /\ UNCHANGED <<devices, energy_data>>
       ELSE LET device == devices[device_id]
                data == Reading(device_id, device.user_id, in)
            IN  /\ devices' = [devices EXCEPT ![device_id].last_seen = Some(now)]
                /\ IF ~device.is_active
                   THEN /\ resp' = NotFound("create_energy_data", "Device not found")
                        /\ UNCHANGED energy_data
                   ELSE /\ energy_data' = Append(energy_data, data)
                        /\ resp' = [ op |-> "create_energy_data", status |-> 200,
                                     body |-> data ]
    /\ UNCHANGED <<inflight, oids, variant, users, now, mongo>>

\* energy_mongo.py: POST /devices/{device_id}/energy-data/
CreateEnergyDataMongo(device_id, in) ==
    /\ variant = "odm"
    /\ IF device_id \notin DOMAIN devices \/ ~devices[device_id].is_active
       THEN /\ resp' = NotFound("create_energy_data", "Device not found")
            /\ UNCHANGED <<devices, energy_data>>
       ELSE LET device == devices[device_id]
                data == Reading(device_id, device.user_id, in)
            IN  /\ devices' = [devices EXCEPT ![device_id].last_seen = Some(now)]
                /\ energy_data' = Append(energy_data, data)
                /\ resp' = [op |-> "create_energy_data", status |-> 200, body |-> data]
    /\ UNCHANGED <<inflight, oids, variant, users, now, mongo>>

(***************************************************************************)
(* Period statistics.                                                      *)
(***************************************************************************)
StatsRequest(user_id, start_date, end_date) ==
    [user_id |-> user_id, start_date |-> start_date, end_date |-> end_date, at |-> now]

\* energy.py: GET /users/{user_id}/energy-stats/
GetUserEnergyStats(user_id, start_date, end_date) ==
    /\ variant = "raw"
    /\ LET req == StatsRequest(user_id, start_date, end_date)
           start == IF IsSome(start_date) THEN Get(start_date)
                    ELSE now - Days(DefaultWindowDays)
           end == IfNull(end_date, now)
       IN  \E result \in {GroupStats(Match(energy_data, user_id, start, end))} :
           resp' =
             IF user_id \notin DOMAIN users
             THEN NotFound("energy_stats", "User not found") @@ [req |-> req]
             ELSE IF result = <<>>
             THEN [ op |-> "energy_stats", status |-> 200, req |-> req,
                    body |-> [ total_energy_consumed |-> 0,
                               total_energy_produced |-> 0,
                               total_cost |-> 0,
                               average_power_consumption |-> Some(Zero),
                               peak_power_consumption |-> Some(0),
                               period_start |-> start,
                               period_end |-> end,
                               data_points_count |-> 0 ] ]
             ELSE [ op |-> "energy_stats", status |-> 200, req |-> req,
                    body |-> [ total_energy_consumed |-> result[1].total_energy_consumed,
                               total_energy_produced |-> result[1].total_energy_produced,
                               total_cost |-> result[1].total_cost,
                               average_power_consumption |->
                                   result[1].average_power_consumption,
                               peak_power_consumption |->
                                   result[1].peak_power_consumption,
                               period_start |-> start,
                               period_end |-> end,
                               data_points_count |-> result[1].data_points_count ] ]
    /\ UNCHANGED <<inflight, oids, variant, users, devices, energy_data, now, mongo>>

\* energy_mongo.py: GET /users/{user_id}/energy-stats/
GetUserEnergyStatsMongo(user_id, start_date, end_date) ==
    /\ variant = "odm"
    /\ LET req == StatsRequest(user_id, start_date, end_date)
           end == IfNull(end_date, now)
           start == IF IsSome(start_date) THEN Get(start_date)
                    ELSE end - Days(DefaultWindowDays)
       IN  \E result \in {GroupStatsMongo(Match(energy_data, user_id, start, end))} :
           resp' =
             [ op |-> "energy_stats", status |-> 200, req |-> req,
               body |->
                 IF result = <<>>
                 THEN [ total_consumption_kwh |-> 0,
                        total_production_kwh |-> 0,
                        total_cost_usd |-> 0,
                        average_power_watts |-> None,
                        peak_power_watts |-> None,
                        device_count |-> 0,
                        period_start |-> start,
                        period_end |-> end ]
                 ELSE [ total_consumption_kwh |-> result[1].total_consumption,
                        total_production_kwh |-> result[1].total_production,
                        total_cost_usd |-> result[1].total_cost,
                        average_power_watts |-> result[1].avg_power,
                        peak_power_watts |-> result[1].peak_power,
                        device_count |-> result[1].device_count,
                        period_start |-> start,
                        period_end |-> end ] ]
    /\ UNCHANGED <<inflight, oids, variant, users, devices, energy_data, now, mongo>>

(***************************************************************************)
(* Daily bucketing.                                                        *)
(***************************************************************************)
\* the distinct values of a sequence, in the order of their first occurrence
RECURSIVE Distinct(_)
Distinct(s) ==
    IF s = <<>> THEN <<>>
    ELSE LET d == Distinct(SubSeq(s, 1, Len(s) - 1))
         IN  IF \E i \in 1..Len(d) : d[i] = s[Len(s)] THEN d ELSE Append(d, s[Len(s)])

\* {"$sort": {"_id": 1}} over documents whose _id are distinct {year, month,
\* day} documents: the i-th output has i - 1 documents before it
SortById(docs) ==
    [i \in 1..Len(docs) |->
        docs[CHOOSE j \in 1..Len(docs) :
                Cardinality({k \in 1..Len(docs) :
                               PartsLess(docs[k]._id, docs[j]._id)}) = i - 1]]

\* {"$sort": {"_id": 1}} over documents whose _id are distinct strings
SortByIdMongo(docs) ==
    [i \in 1..Len(docs) |->
        docs[CHOOSE j \in 1..Len(docs) :
                Cardinality({k \in 1..Len(docs) :
                               StrLess(docs[k]._id, docs[j]._id)}) = i - 1]]

\* $group of energy.py by {year, month, day}, one document per key
GroupDaily(docs) ==
    LET keys == Distinct([i \in 1..Len(docs) |-> DateParts(docs[i].timestamp)])
    IN  [k \in 1..Len(keys) |->
           LET g == SelectSeq(docs, LAMBDA r : DateParts(r.timestamp) = keys[k])
           IN  [ _id |-> keys[k],
                 total_energy_consumed |-> SumSeq(Field(g, "energy_consumption_kwh")),
                 total_energy_produced |-> SumSeq(Field(g, "energy_production_kwh")),
                 total_cost |-> SumSeq([i \in 1..Len(g) |-> IfNull(g[i].total_cost, 0)]),
                 average_power_consumption |->
                     AvgOpt(Field(g, "power_consumption_watts")),
                 peak_power_consumption |->
                     MaxOpt(Field(g, "power_consumption_watts")) ]]

\* $group of energy_mongo.py by $dateToString; the bucket's mean temperature
\* is not modelled (readings carry no temperature here)
GroupDailyMongo(docs) ==
    LET keys == Distinct([i \in 1..Len(docs) |-> DateToString(docs[i].timestamp)])
    IN  [k \in 1..Len(keys) |->
           LET g == SelectSeq(docs, LAMBDA r : DateToString(r.timestamp) = keys[k])
           IN  [ _id |-> keys[k],
                 consumption |-> SumSeq(Field(g, "energy_consumption_kwh")),
                 production |-> SumSeq(Field(g, "energy_production_kwh")),
                 cost |-> SumOpt(Field(g, "total_cost")) ]]

\* variation of the pipeline: no $sort stage
DailyPipelineUnsorted(coll, user_id, start_date, end_date) ==
    GroupDaily(Match(coll, user_id, start_date, end_date))

\* the pipeline of energy.py: $match, $group, $sort
DailyPipeline(coll, user_id, start_date, end_date) ==
    SortById(GroupDaily(Match(coll, user_id, start_date, end_date)))

\* the pipeline of energy_mongo.py: $match, $group, $sort
DailyPipelineMongo(coll, user_id, start_date, end_date) ==
    SortByIdMongo(GroupDailyMongo(Match(coll, user_id, start_date, end_date)))

\* variation of the daily statistics: the readings it has aggregated are
\* removed from the collection
GetUserDailyStatsConsuming(user_id, days) ==
    /\ variant = "raw"
    /\ LET req == [user_id |-> user_id, days |-> days, at |-> now]
           end_date == now
           start_date == end_date - Days(days)
       IN  \E result \in {DailyPipeline(energy_data, user_id, start_date, end_date)} :
           resp' =
             IF user_id \notin DOMAIN users
             THEN NotFound("daily_stats", "User not found") @@ [req |-> req]
             ELSE [ op |-> "daily_stats", status |-> 200, req |-> req,
                    body |-> [i \in 1..Len(result) |->
                        [ date |-> FormatDate(result[i]._id),
                          total_energy_consumed |-> result[i].total_energy_consumed,
                          total_energy_produced |-> result[i].total_energy_produced,
                          total_cost |-> result[i].total_cost,
                          average_power_consumption |->
                              result[i].average_power_consumption,
                          peak_power_consumption |->
                              result[i].peak_power_consumption ]] ]
    /\ energy_data' =
           SelectSeq(energy_data,
                     LAMBDA r : ~InRange(r, user_id, now - Days(days), now))
    /\ UNCHANGED <<inflight, oids, variant, users, devices, now, mongo>>

\* energy.py: GET /users/{user_id}/daily-stats/
GetUserDailyStats(user_id, days) ==
    /\ variant = "raw"
    /\ LET req == [user_id |-> user_id, days |-> days, at |-> now]
           end_date == now
           start_date == end_date - Days(days)
       IN  \E result \in {DailyPipeline(energy_data, user_id, start_date, end_date)} :
           resp' =
             IF user_id \notin DOMAIN users
             THEN NotFound("daily_stats", "User not found") @@ [req |-> req]
             ELSE [ op |-> "daily_stats", status |-> 200, req |-> req,
                    body |-> [i \in 1..Len(result) |->
                        [ date |-> FormatDate(result[i]._id),
                          total_energy_consumed |-> result[i].total_energy_consumed,
                          total_energy_produced |-> result[i].total_energy_produced,
                          total_cost |-> result[i].total_cost,
                          average_power_consumption |->
                              result[i].average_power_consumption,
                          peak_power_consumption |->
                              result[i].peak_power_consumption ]] ]
    /\ UNCHANGED <<inflight, oids, variant, users, devices, energy_data, now, mongo>>

\* energy_mongo.py: GET /users/{user_id}/daily-stats/
GetUserDailyStatsMongo(user_id, days) ==
    /\ variant = "odm"
    /\ LET req == [user_id |-> user_id, days |-> days, at |-> now]
           end_date == now
           start_date == end_date - Days(days)
       IN  \E result \in {DailyPipelineMongo(energy_data, user_id, start_date, end_date)} :
           resp' =
             [ op |-> "daily_stats", status |-> 200, req |-> req,
               body |-> [i \in 1..Len(result) |->
                   [ date |-> result[i]._id,
                     consumption_kwh |-> result[i].consumption,
                     production_kwh |-> result[i].production,
                     cost_usd |-> result[i].cost ]] ]
    /\ UNCHANGED <<inflight, oids, variant, users, devices, energy_data, now, mongo>>

(***************************************************************************)
(* Period comparison.                                                      *)
(***************************************************************************)
\* the literal used when a period's pipeline returns no document
EmptyStats ==
    [ total_energy_consumed |-> 0,
      total_energy_produced |-> 0,
      total_cost |-> 0,
      average_power_consumption |-> Some(Zero),
      peak_power_consumption |-> Some(0),
      data_points_count |-> 0 ]

PeriodStats(coll, user_id, start_date, end_date) ==
    LET result == GroupStats(Match(coll, user_id, start_date, end_date))
    IN  IF result = <<>> THEN EmptyStats ELSE result[1]

Period(stats, start_date, end_date) ==
    [ total_energy_consumed |-> stats.total_energy_consumed,
      total_energy_produced |-> stats.total_energy_produced,
      total_cost |-> stats.total_cost,
      average_power_consumption |-> stats.average_power_consumption,
      peak_power_consumption |-> stats.peak_power_consumption,
      period_start |-> start_date,
      period_end |-> end_date,
      data_points_count |-> stats.data_points_count ]

\* variation: comparison fields initialised to 0
ZeroComparison ==
    [ percentage_change |-> Some(Zero), energy_savings |-> Some(0),
      cost_savings |-> Some(0) ]

\* the comparison fields as initialised before a prior period is looked at
NoComparison ==
    [ percentage_change |-> None, energy_savings |-> None, cost_savings |-> None ]

\* variation: the change measured from the recent period to the prior one
ChangesInverted(current_stats, comparison_stats) ==
    IF comparison_stats.total_energy_consumed > 0
    THEN [ percentage_change |->
               Some(Rat((comparison_stats.total_energy_consumed
                           - current_stats.total_energy_consumed) * 100,
                        comparison_stats.total_energy_consumed)),
           energy_savings |->
               Some(current_stats.total_energy_consumed
                      - comparison_stats.total_energy_consumed),
           cost_savings |->
               Some(current_stats.total_cost - comparison_stats.total_cost) ]
    ELSE [ percentage_change |-> None, energy_savings |-> None, cost_savings |-> None ]

\* variation: a prior period without consumption reported as "no change"
ChangesZeroPrior(current_stats, comparison_stats) ==
    IF comparison_stats.total_energy_consumed > 0
    THEN [ percentage_change |->
               Some(Rat((current_stats.total_energy_consumed
                           - comparison_stats.total_energy_consumed) * 100,
                        comparison_stats.total_energy_consumed)),
           energy_savings |->
               Some(comparison_stats.total_energy_consumed
                      - current_stats.total_energy_consumed),
           cost_savings |->
               Some(comparison_stats.total_cost - current_stats.total_cost) ]
    ELSE [ percentage_change |-> Some(Zero), energy_savings |-> None,
           cost_savings |-> None ]

\* "Calculate changes": the three derived fields of the comparison; they keep
\* their initial values unless the prior period consumed something
Changes(current_stats, comparison_stats) ==
    IF comparison_stats.total_energy_consumed > 0
    THEN [ percentage_change |->
               Some(Rat((current_stats.total_energy_consumed
                           - comparison_stats.total_energy_consumed) * 100,
                        comparison_stats.total_energy_consumed)),
           energy_savings |->
               Some(comparison_stats.total_energy_consumed
                      - current_stats.total_energy_consumed),
           cost_savings |->
               Some(comparison_stats.total_cost - current_stats.total_cost) ]
    ELSE NoComparison

\* ai_recommendations.py: POST /users/{user_id}/compare-usage
CompareEnergyUsage(user_id, request) ==
    /\ variant = "raw"
    /\ LET supplied == /\ IsSome(request.comparison_start_date)
                       /\ IsSome(request.comparison_end_date)
       IN  \E current_stats \in
                 {PeriodStats(energy_data, user_id, request.start_date, request.end_date)},
              comparison_stats \in
                 {IF supplied
                  THEN PeriodStats(energy_data, user_id,
                                   Get(request.comparison_start_date),
                                   Get(request.comparison_end_date))
                  ELSE EmptyStats} :
           \E changes \in
                 {IF supplied THEN Changes(current_stats, comparison_stats)
                  ELSE NoComparison} :
           resp' =
             IF user_id \notin DOMAIN users
             THEN NotFound("compare_usage", "User not found") @@ [req |-> request]
             ELSE [ op |-> "compare_usage", status |-> 200, req |-> request,
                    body |->
                      [ current_period |->
                            Period(current_stats, request.start_date, request.end_date),
                        comparison_period |->
                            IF supplied
                            THEN Some(Period(comparison_stats,
                                             Get(request.comparison_start_date),
                                             Get(request.comparison_end_date)))
                            ELSE None,
                        percentage_change |-> changes.percentage_change,
                        cost_savings |-> changes.cost_savings,
                        energy_savings |-> changes.energy_savings ] ]
    /\ UNCHANGED <<inflight, oids, variant, users, devices, energy_data, now, mongo>>

(***************************************************************************)
(* Inputs.  The measured values of a request body are drawn from a few     *)
(* fixtures: a reading without cost, a reading with every field, and a     *)
(* generating device's reading (no consumption; its power is 0 in the raw  *)
(* binding, where power is a required field, and null in the mapper        *)
(* binding, as the seed script writes it).                                 *)
(***************************************************************************)
Values(consumption, production, cost, power) ==
    [ energy_consumption_kwh |-> consumption,
      energy_production_kwh |-> production,
      total_cost |-> cost,
      power_consumption_watts |-> power,
      humidity |-> None ]

RawValues ==
    { Values(80, 0, None, Some(1800)),
      Values(100, 5, Some(12), Some(600)),
      Values(0, 7, Some(3), Some(0)) }

OdmValues ==
    { Values(80, 0, None, Some(1800)),
      Values(100, 5, Some(12), Some(600)),
      Values(0, 7, Some(3), None) }

Bodies(values, times) == {v @@ [timestamp |-> t] : v \in values, t \in times}

(***************************************************************************)
(* Period statistics: readings at the edges of the default window and      *)
(* around the clock; explicit bounds around the clock.                     *)
(***************************************************************************)
StatsTimes == {Some(T0 - Days(DefaultWindowDays)), Some(T0), Some(T0 + 1)}

\* <<start_date, end_date>>: the default window, a proper interval, a
\* malformed interval, and one bound only
StatsBounds ==
    { <<None, None>>, <<Some(T0), Some(T0 + 1)>>, <<Some(T0 + 1), Some(T0)>>,
      <<None, Some(T0)>> }

StatsRequests ==
    {StatsRequest("u1", b[1], b[2]) : b \in StatsBounds}
      \cup {StatsRequest(UnknownUser, None, None)}

StatsDevices == {"d1", "d3", UnknownDevice}

StatsDevicesMongo == {"d1", "d3"}

Next ==
    \/ Tick
    \/ /\ Len(energy_data) < MaxReadings
       /\ \E device_id \in StatsDevices, in \in Bodies(RawValues, StatsTimes) :
             CreateEnergyData(device_id, in)
    \/ /\ Len(energy_data) < MaxReadings
       /\ \E device_id \in StatsDevicesMongo, in \in Bodies(OdmValues, StatsTimes) :
             CreateEnergyDataMongo(device_id, in)
    \/ \E r \in StatsRequests :
          GetUserEnergyStats(r.user_id, r.start_date, r.end_date)
    \/ \E r \in StatsRequests :
          GetUserEnergyStatsMongo(r.user_id, r.start_date, r.end_date)

Spec == Init /\ [][Next]_vars

(***************************************************************************)
(* Daily bucketing: readings on three consecutive calendar days around the *)
(* clock, two instants of them on the clock's day.  The other user's       *)
(* device reports one fixture only, at the start instant.                  *)
(***************************************************************************)
DailyTimes ==
    {Some(T0 - Days(1)), Some(T0 - 1), Some(T0), Some(T0 + Days(1) - 1)}

DailyDays == {1, 2}

DailyDevices == {"d1", "d3"}

DailyBodies(device_id, values) ==
    IF device_id = "d1"
    THEN Bodies({v \in values : v.energy_consumption_kwh > 0}, DailyTimes)
    ELSE Bodies({v \in values : v.energy_consumption_kwh = 100}, {Some(T0)})

DailyRequests ==
    {<<"u1", days>> : days \in DailyDays} \cup {<<UnknownUser, 1>>}

NextDaily ==
    \/ Tick
    \/ /\ Len(energy_data) < MaxDailyReadings
       /\ \E device_id \in DailyDevices :
            \E in \in DailyBodies(device_id, RawValues) :
               CreateEnergyData(device_id, in)
    \/ /\ Len(energy_data) < MaxDailyReadings
       /\ \E device_id \in DailyDevices :
            \E in \in DailyBodies(device_id, OdmValues) :
               CreateEnergyDataMongo(device_id, in)
    \/ \E r \in DailyRequests : GetUserDailyStats(r[1], r[2])
    \/ \E r \in DailyRequests : GetUserDailyStatsMongo(r[1], r[2])

SpecDaily == Init /\ [][NextDaily]_vars

(***************************************************************************)
(* Period comparison (raw binding only): a recent period around the clock  *)
(* and a prior period before it.                                           *)
(***************************************************************************)
CompareTimes == {None, Some(T0 - Days(2))}

CompareDevices == {"d1", "d3"}

CompareRequests ==
    { [ user_id |-> u, start_date |-> se[1], end_date |-> se[2],
        comparison_start_date |-> cs, comparison_end_date |-> ce ] :
        u \in {"u1"},
        se \in {<<T0 - 1, T0 + 1>>, <<T0 + 1, T0 - 1>>},
        cs \in {None, Some(T0 - Days(3))},
        ce \in {None, Some(T0 - Days(1) - 1)} }
      \cup { [ user_id |-> UnknownUser, start_date |-> T0 - 1, end_date |-> T0 + 1,
               comparison_start_date |-> None, comparison_end_date |-> None ] }

InitRaw == Init /\ variant = "raw"

NextCompare ==
    \/ Tick
    \/ /\ Len(energy_data) < MaxCompareReadings
       /\ \E device_id \in CompareDevices, in \in Bodies(RawValues, CompareTimes) :
             CreateEnergyData(device_id, in)
    \/ \E request \in CompareRequests : CompareEnergyUsage(request.user_id, request)

SpecCompare == InitRaw /\ [][NextCompare]_vars

(***************************************************************************)
(* The recommendation service (app/services/openai_service.py).            *)
(*                                                                         *)
(* A JSON value is a record [t, s, n, items]: t is its type ("missing" for *)
(* a key a dict does not have), s the text of a string, n a number, items  *)
(* the elements of a list of strings or the keys of a dict of string       *)
(* lists.  A payload is what json.loads or a fallback returns: an object   *)
(* with its fields, or some other JSON value.                              *)
(***************************************************************************)
JVal(t, s, n, items) == [t |-> t, s |-> s, n |-> n, items |-> items]

Missing == JVal("missing", "", 0, <<>>)

Null == JVal("null", "", 0, <<>>)

Str(s) == JVal("str", s, 0, <<>>)

Num(n) == JVal("num", "", n, <<>>)

StrList(items) == JVal("strlist", "", 0, items)

Tips(names) == JVal("tips", "", 0, names)

Object(fields) == [kind |-> "object", fields |-> fields]

\* a JSON document that is not an object, e.g. [] or "ok"
NotAnObject == [kind |-> "array", fields |-> [elements |-> StrList(<<>>)]]

\* the immutable part of a device document: its type and rated power (the
\* seeded devices are an air conditioner, a light and a solar array; a device
\* created without a rating stores null)
SeedProfile ==
    [d \in {"d1", "d2", "d3"} |->
        IF d = "d1" THEN [device_type |-> "hvac", power_rating_watts |-> Some(2000)]
        ELSE IF d = "d2" THEN [device_type |-> "lighting", power_rating_watts |-> Some(50)]
        ELSE [device_type |-> "solar", power_rating_watts |-> Some(5000)]]

DeviceProfile(device_id) ==
    IF device_id \in DOMAIN SeedProfile THEN SeedProfile[device_id]
    ELSE [device_type |-> "appliance", power_rating_watts |-> None]

RECURSIVE SetToSeq(_)
SetToSeq(S) ==
    IF S = {} THEN <<>>
    ELSE LET x == CHOOSE y \in S : TRUE IN <<x>> \o SetToSeq(S \ {x})

\* _get_fallback_recommendations: device tips for the device types it knows
FallbackRecommendations(device_ids) ==
    Object(
      [ recommendations |->
            StrList(<< "Set your thermostat to 68F in winter and 78F in summer",
                       "Replace traditional light bulbs with LED bulbs",
                       "Unplug devices when not in use",
                       "Use power strips to easily turn off multiple devices at once",
                       "Consider installing a smart thermostat" >>),
        energy_savings_potential |-> Str("15-25%"),
        cost_savings_potential |-> Str("$50-100 per month"),
        efficiency_score |-> Num(75),
        device_specific_tips |->
            Tips(SetToSeq({d \in device_ids :
                    DeviceProfile(d).device_type \in {"hvac", "lighting", "appliance"}})) ])

\* _get_fallback_pattern_analysis
FallbackPatternAnalysis ==
    Object(
      [ patterns |->
            StrList(<< "Energy consumption typically peaks during evening hours",
                       "Weekend usage patterns differ from weekday patterns",
                       "Seasonal variations in energy consumption are evident" >>),
        anomalies |->
            StrList(<< "Unusual spike in energy consumption detected",
                       "Extended periods of zero consumption may indicate sensor issues" >>),
        trends |->
            StrList(<< "Gradual increase in energy efficiency over time",
                       "Consistent reduction in peak power consumption" >>),
        insights |->
            StrList(<< "Your energy usage follows typical residential patterns",
                       "Consider implementing time-of-use optimization strategies" >>),
        recommendations |->
            StrList(<< "Monitor energy consumption during peak hours",
                       "Implement automated controls for better efficiency",
                       "Consider renewable energy sources for production" >>) ])

\* _get_fallback_device_tips
FallbackDeviceTips(device_type) ==
    Object(
      [ tips |->
            StrList(<< "Ensure proper maintenance and cleaning",
                       "Check for energy-efficient settings",
                       "Consider upgrading to newer, more efficient models" >>
                    \o (IF device_type = "hvac"
                        THEN << "Clean or replace air filters regularly",
                                "Schedule professional maintenance annually",
                                "Use programmable thermostats for better control" >>
                        ELSE IF device_type = "lighting"
                        THEN << "Switch to LED bulbs for better efficiency",
                                "Use natural lighting when possible",
                                "Install motion sensors for automatic control" >>
                        ELSE IF device_type = "appliance"
                        THEN << "Run full loads only",
                                "Use energy-saving modes",
                                "Unplug when not in use" >>
                        ELSE <<>>)),
        potential_savings |-> Str("10-20%"),
        efficiency_score |-> Num(80),
        recommendations |->
            StrList(<< "Regular maintenance is key to optimal performance",
                       "Consider smart controls for better automation",
                       "Monitor usage patterns for optimization opportunities" >>) ])

(***************************************************************************)
(* The external completion.  A deployment has a client or not (the API key *)
(* is configured or not), and a call of the client ends in one of:         *)
(*   "raises"     the call raises (network, quota, authentication)         *)
(*   "none"       the message carries no content                           *)
(*   "text"       the content is not JSON                                  *)
(*   "array"      the content is JSON but not an object                    *)
(*   "object"     a JSON object without the fields asked for, or with      *)
(*                fields of another type                                   *)
(*   "structured" a JSON object of the structure the prompt asks for       *)
(***************************************************************************)
ReplyKinds == {"raises", "none", "text", "array", "object", "structured"}

\* what json.loads returns for the content of a reply of a kind that parses
ExternalRecommendations(kind) ==
    IF kind = "array" THEN NotAnObject
    ELSE IF kind = "object"
    THEN Object([ recommendations |-> Str("Use less energy"),
                  energy_savings_potential |-> Missing,
                  cost_savings_potential |-> Missing,
                  efficiency_score |-> Str("high"),
                  device_specific_tips |-> Null ])
    ELSE Object([ recommendations |-> StrList(<<"Shift laundry to off-peak hours">>),
                  energy_savings_potential |-> Num(40),
                  cost_savings_potential |-> Num(12),
                  efficiency_score |-> Str("82"),
                  device_specific_tips |-> Tips(<<>>) ])

ExternalPatternAnalysis(kind) ==
    IF kind = "array" THEN NotAnObject
    ELSE IF kind = "object"
    THEN Object([ patterns |-> Str("none"), anomalies |-> Missing, trends |-> Missing,
                  insights |-> Missing, recommendations |-> Missing ])
    ELSE Object([ patterns |-> StrList(<<>>), anomalies |-> StrList(<<>>),
                  trends |-> StrList(<<>>),
                  insights |-> StrList(<<"Consumption is steady">>),
                  recommendations |-> StrList(<<"Keep monitoring">>) ])

ExternalDeviceTips(kind) ==
    IF kind = "array" THEN NotAnObject
    ELSE IF kind = "object"
    THEN Object([ tips |-> Str("clean it"), potential_savings |-> Null,
                  efficiency_score |-> Missing, recommendations |-> Missing ])
    ELSE Object([ tips |-> StrList(<<"Raise the set point by one degree">>),
                  potential_savings |-> Num(5),
                  efficiency_score |-> Num(70),
                  recommendations |-> StrList(<<"Service the unit yearly">>) ])

\* the body shared by the three service functions: no client, the call or the
\* preparation of the prompt raises, or json.loads raises -> the fallback;
\* whatever json.loads returns is returned as it is
Complete(ai, prepare_raises, external, fallback) ==
    IF ~ai.client THEN fallback
    ELSE IF prepare_raises \/ ai.reply \in {"raises", "none", "text"} THEN fallback
    ELSE external

\* OpenAIService.get_energy_recommendations; the prompt formats the average
\* power with a float format, which raises on null
get_energy_recommendations(ai, analysis_data) ==
    Complete(ai, analysis_data.average_power = None,
             ExternalRecommendations(ai.reply),
             FallbackRecommendations(analysis_data.devices))

\* OpenAIService.analyze_energy_patterns
analyze_energy_patterns(ai) ==
    Complete(ai, FALSE, ExternalPatternAnalysis(ai.reply), FallbackPatternAnalysis)

\* OpenAIService.get_device_optimization_tips
get_device_optimization_tips(ai, device_type) ==
    Complete(ai, FALSE, ExternalDeviceTips(ai.reply), FallbackDeviceTips(device_type))

(***************************************************************************)
(* The AI endpoints (app/routers/ai_recommendations.py).  A handler wraps  *)
(* everything but an HTTPException into a 500.                             *)
(***************************************************************************)
ServerError(op) == [op |-> op, status |-> 500, detail |-> "Internal server error"]

\* dict.get(key, default)
DictGet(payload, key, default) ==
    IF payload.fields[key].t = "missing" THEN default ELSE payload.fields[key]

\* float(s) succeeds
ParsesAsFloat(s) == s \in {"82"}

\* validation of a field declared List[str]
AcceptsStrList(v) == v.t = "strlist"

\* validation of a field declared Optional[float]
AcceptsOptFloat(v) == v.t \in {"null", "num"} \/ (v.t = "str" /\ ParsesAsFloat(v.s))

\* validation of a field declared Optional[Dict[str, List[str]]]
AcceptsOptTips(v) == v.t \in {"null", "tips"}

\* validation of a field declared List[Dict[str, Any]]: a list none of whose
\* elements is a string
AcceptsDictList(v) == v.t = "strlist" /\ v.items = <<>>

\* {"$match": {key: id, "timestamp": {"$gte": since}}}
MatchSince(coll, key, id, since) ==
    SelectSeq(coll, LAMBDA r : r[key] = id /\ r.timestamp >= since)

\* the statistics of the last 30 days, or the literal used for no document
StatsSince(coll, key, id, since) ==
    LET result == GroupStats(MatchSince(coll, key, id, since))
    IN  IF result = <<>> THEN EmptyStats ELSE result[1]

AIRequest(id, ai) == [user_id |-> id, ai |-> ai, at |-> now]

\* POST /users/{user_id}/recommendations
GetAIRecommendations(user_id, request, ai) ==
    /\ variant = "raw"
    /\ LET req == AIRequest(user_id, ai)
           thirty_days_ago == now - Days(DefaultWindowDays)
           device_ids == {d \in DOMAIN devices : devices[d].user_id = user_id}
       IN  \E stats \in {StatsSince(energy_data, "user_id", user_id, thirty_days_ago)} :
           \E recommendations \in
                {get_energy_recommendations(ai,
                    [ devices |-> device_ids,
                      average_power |-> stats.average_power_consumption ])} :
           resp' =
             IF user_id \notin DOMAIN users
             THEN NotFound("recommendations", "User not found") @@ [req |-> req]
             ELSE IF recommendations.kind # "object"
             THEN ServerError("recommendations")
                    @@ [req |-> req, service |-> recommendations]
             ELSE LET body ==
                        [ user_id |-> user_id,
                          analysis_type |-> request.analysis_type,
                          recommendations |->
                              DictGet(recommendations, "recommendations", StrList(<<>>)),
                          energy_savings_potential |->
                              DictGet(recommendations, "energy_savings_potential", Null),
                          cost_savings_potential |->
                              DictGet(recommendations, "cost_savings_potential", Null),
                          efficiency_score |->
                              DictGet(recommendations, "efficiency_score", Null),
                          device_specific_tips |->
                              DictGet(recommendations, "device_specific_tips", Null) ]
                  IN  IF /\ AcceptsStrList(body.recommendations)
                         /\ AcceptsOptFloat(body.energy_savings_potential)
                         /\ AcceptsOptFloat(body.cost_savings_potential)
                         /\ AcceptsOptFloat(body.efficiency_score)
                         /\ AcceptsOptTips(body.device_specific_tips)
                      THEN [ op |-> "recommendations", status |-> 200, req |-> req,
                             service |-> recommendations, body |-> body ]
                      ELSE ServerError("recommendations")
                             @@ [req |-> req, service |-> recommendations]
    /\ UNCHANGED <<inflight, oids, variant, users, devices, energy_data, now, mongo>>

\* the timestamps of documents in ascending order: .sort("timestamp", 1)
RECURSIVE Ascending(_)
Ascending(ts) ==
    IF ts = <<>> THEN <<>>
    ELSE LET rest == Ascending(SubSeq(ts, 1, Len(ts) - 1))
             x == ts[Len(ts)]
             k == Cardinality({i \in 1..Len(rest) : rest[i] <= x})
         IN  SubSeq(rest, 1, k) \o <<x>> \o SubSeq(rest, k + 1, Len(rest))

\* .sort("timestamp", -1)
Descending(ts) == [i \in 1..Len(ts) |-> Ascending(ts)[Len(ts) + 1 - i]]

\* s[:n], to_list(length=n)
Limit(s, n) == SubSeq(s, 1, IF Len(s) < n THEN Len(s) ELSE n)

\* the readings analyze_energy_patterns puts into its prompt, by timestamp:
\* the handler's query result, sorted by ascending timestamp, cut by [:10]
PatternSample(found) == Limit(Ascending(Field(found, "timestamp")), 10)

\* the readings get_device_optimization_tips puts into its prompt, by
\* timestamp: the handler's query (descending, at most 50), its [:10] for
\* recent_data, and the service's [:5]
TipsSample(device_id) ==
    LET found == MatchSince(energy_data, "device_id", device_id,
                            now - Days(DefaultWindowDays))
        recent_data == Limit(Limit(Descending(Field(found, "timestamp")), 50), 10)
    IN  Limit(recent_data, 5)

\* POST /users/{user_id}/energy-analysis
AnalyzeEnergyPatterns(user_id, request, ai) ==
    /\ variant = "raw"
    /\ LET req == AIRequest(user_id, ai)
       IN  \E found \in {Match(energy_data, user_id, request.start_date,
                               request.end_date)} :
           \E analysis_result \in {analyze_energy_patterns(ai)} :
           resp' =
             [sample |-> IF ai.client THEN PatternSample(found) ELSE <<>>] @@
             IF user_id \notin DOMAIN users
             THEN NotFound("energy_analysis", "User not found") @@ [req |-> req]
             ELSE IF found = <<>>
             THEN NotFound("energy_analysis",
                           "No energy data found for the specified period")
                    @@ [req |-> req]
             ELSE IF analysis_result.kind # "object"
             THEN ServerError("energy_analysis")
                    @@ [req |-> req, service |-> analysis_result]
             ELSE LET body ==
                        [ user_id |-> user_id,
                          analysis_type |-> request.analysis_type,
                          patterns_found |->
                              DictGet(analysis_result, "patterns", StrList(<<>>)),
                          anomalies_detected |->
                              DictGet(analysis_result, "anomalies", StrList(<<>>)),
                          trends_identified |->
                              DictGet(analysis_result, "trends", StrList(<<>>)),
                          insights |->
                              DictGet(analysis_result, "insights", StrList(<<>>)),
                          recommendations |->
                              DictGet(analysis_result, "recommendations", StrList(<<>>)) ]
                  IN  IF /\ AcceptsDictList(body.patterns_found)
                         /\ AcceptsDictList(body.anomalies_detected)
                         /\ AcceptsDictList(body.trends_identified)
                         /\ AcceptsStrList(body.insights)
                         /\ AcceptsStrList(body.recommendations)
                      THEN [ op |-> "energy_analysis", status |-> 200, req |-> req,
                             service |-> analysis_result, body |-> body ]
                      ELSE ServerError("energy_analysis")
                             @@ [req |-> req, service |-> analysis_result]
    /\ UNCHANGED <<inflight, oids, variant, users, devices, energy_data, now, mongo>>

\* POST /devices/{device_id}/optimization-tips: the response is a plain dict
GetDeviceOptimizationTips(device_id, ai) ==
    /\ variant = "raw"
    /\ LET req == [device_id |-> device_id, ai |-> ai, at |-> now]
       IN  \E optimization_tips \in
                {get_device_optimization_tips(ai, DeviceProfile(device_id).device_type)} :
           resp' =
             [sample |-> IF ai.client THEN TipsSample(device_id) ELSE <<>>] @@
             IF device_id \notin DOMAIN devices
             THEN NotFound("optimization_tips", "Device not found") @@ [req |-> req]
             ELSE IF optimization_tips.kind # "object"
             THEN ServerError("optimization_tips")
                    @@ [req |-> req, service |-> optimization_tips]
             ELSE [ op |-> "optimization_tips", status |-> 200, req |-> req,
                    service |-> optimization_tips,
                    body |->
                      [ device_id |-> device_id,
                        device_type |-> DeviceProfile(device_id).device_type,
                        optimization_tips |->
                            DictGet(optimization_tips, "tips", StrList(<<>>)),
                        potential_savings |->
                            DictGet(optimization_tips, "potential_savings", Null),
                        efficiency_score |->
                            DictGet(optimization_tips, "efficiency_score", Null),
                        recommendations |->
                            DictGet(optimization_tips, "recommendations", StrList(<<>>)) ] ]
    /\ UNCHANGED <<inflight, oids, variant, users, devices, energy_data, now, mongo>>

\* min(100, max(0, (power_rating - average_power) / power_rating * 100))
EfficiencyScore(power_rating, average_power) ==
    LET num == (power_rating * average_power[2] - average_power[1]) * 100
        den == power_rating * average_power[2]
    IN  IF num < 0 THEN Zero
        ELSE IF num > 100 * den THEN Rat(100, 1)
        ELSE Rat(num, den)

RatAdd(x, y) == Rat(x[1] * y[2] + y[1] * x[2], x[2] * y[2])

RECURSIVE RatSum(_)
RatSum(s) == IF s = <<>> THEN Zero ELSE RatAdd(s[1], RatSum(Tail(s)))

\* the body of the loop over the user's devices: the device's report, or a
\* failure (a null rating or average compared or subtracted, a result that
\* is no dict, a potential saving that cannot be added to a number, a report
\* that does not validate)
DeviceReport(device_id, ai, since) ==
    LET stats == StatsSince(energy_data, "device_id", device_id, since)
        power_rating == DeviceProfile(device_id).power_rating_watts
        device_tips ==
            get_device_optimization_tips(ai, DeviceProfile(device_id).device_type)
        recommendations == DictGet(device_tips, "recommendations", StrList(<<>>))
        potential_savings == DictGet(device_tips, "potential_savings", Num(0))
    IN  IF \/ power_rating = None
           \/ (Get(power_rating) > 0 /\ stats.average_power_consumption = None)
           \/ device_tips.kind # "object"
        THEN [ok |-> FALSE]
        ELSE IF potential_savings.t # "num" \/ ~AcceptsStrList(recommendations)
        THEN [ok |-> FALSE]
        ELSE [ ok |-> TRUE,
               device_id |-> device_id,
               device_type |-> DeviceProfile(device_id).device_type,
               efficiency_score |->
                   IF Get(power_rating) > 0
                   THEN EfficiencyScore(Get(power_rating),
                                        Get(stats.average_power_consumption))
                   ELSE Zero,
               energy_consumption |-> stats.total_energy_consumed,
               cost |-> stats.total_cost,
               recommendations |-> recommendations,
               potential_savings |-> potential_savings.n ]

\* GET /users/{user_id}/efficiency-report
GetUserEfficiencyReport(user_id, ai) ==
    /\ variant = "raw"
    /\ LET req == AIRequest(user_id, ai)
           thirty_days_ago == now - Days(DefaultWindowDays)
           device_ids ==
               SetToSeq({d \in DOMAIN devices : devices[d].user_id = user_id})
       IN  \E user_stats \in
                {StatsSince(energy_data, "user_id", user_id, thirty_days_ago)} :
           \E device_reports \in
                {[i \in 1..Len(device_ids) |->
                     DeviceReport(device_ids[i], ai, thirty_days_ago)]} :
           \E general_recommendations \in
                {get_energy_recommendations(ai,
                    [ devices |-> {device_ids[i] : i \in 1..Len(device_ids)},
                      average_power |-> Some(Zero) ])} :
           resp' =
             IF user_id \notin DOMAIN users
             THEN NotFound("efficiency_report", "User not found") @@ [req |-> req]
             ELSE IF \/ \E i \in 1..Len(device_reports) : ~device_reports[i].ok
                     \/ general_recommendations.kind # "object"
             THEN ServerError("efficiency_report")
                    @@ [req |-> req, service |-> general_recommendations]
             ELSE IF ~AcceptsStrList(DictGet(general_recommendations,
                                             "recommendations", StrList(<<>>)))
             THEN ServerError("efficiency_report")
                    @@ [req |-> req, service |-> general_recommendations]
             ELSE [ op |-> "efficiency_report", status |-> 200, req |-> req,
                    service |-> general_recommendations,
                    body |->
                      [ user_id |-> user_id,
                        overall_efficiency_score |->
                            IF device_reports = <<>> THEN Zero
                            ELSE LET total == RatSum([i \in 1..Len(device_reports) |->
                                                  device_reports[i].efficiency_score])
                                 IN  Rat(total[1], total[2] * Len(device_reports)),
                        total_energy_consumed |-> user_stats.total_energy_consumed,
                        total_cost |-> user_stats.total_cost,
                        device_reports |-> device_reports,
                        recommendations |->
                            DictGet(general_recommendations, "recommendations",
                                    StrList(<<>>)),
                        potential_monthly_savings |->
                            SumSeq([i \in 1..Len(device_reports) |->
                                       device_reports[i].potential_savings]) ] ]
    /\ UNCHANGED <<inflight, oids, variant, users, devices, energy_data, now, mongo>>

(***************************************************************************)
(* The AI endpoints over a small store (raw binding): a deployment without *)
(* a client, and one whose client's call ends in each of the ways above.   *)
(***************************************************************************)
AIEnvironments ==
    {[client |-> FALSE, reply |-> "raises"]}
      \cup {[client |-> TRUE, reply |-> k] : k \in ReplyKinds}

AITimes == {None, Some(T0 - Days(DefaultWindowDays) - 1)}

AIAnalysisRequests ==
    {[start_date |-> T0 - 1, end_date |-> T0 + MaxTicks, analysis_type |-> "patterns"]}

NextAI ==
    \/ Tick
    \/ /\ Len(energy_data) < MaxAIReadings
       /\ \E device_id \in {"d1", "d3"},
             in \in Bodies({Values(80, 0, None, Some(1800))}, AITimes) :
             CreateEnergyData(device_id, in)
    \/ \E user_id \in {"u1", "u2", UnknownUser}, ai \in AIEnvironments :
          GetAIRecommendations(user_id, [analysis_type |-> "general"], ai)
    \/ \E user_id \in {"u1", "u2", UnknownUser}, request \in AIAnalysisRequests,
          ai \in AIEnvironments :
          AnalyzeEnergyPatterns(user_id, request, ai)
    \/ \E device_id \in {"d1", "d3", UnknownDevice}, ai \in AIEnvironments :
          GetDeviceOptimizationTips(device_id, ai)
    \/ \E user_id \in {"u1", "u2", UnknownUser}, ai \in AIEnvironments :
          GetUserEfficiencyReport(user_id, ai)

SpecAI == InitRaw /\ [][NextAI]_vars

(***************************************************************************)
(* The handlers of energy.py, one store operation at a time.  A handler    *)
(* runs without interruption up to its next await of a store operation,    *)
(* and there any other handler may run.  Begin... is the arrival of a      *)
(* request with the handler's first store operation (the lookup of the     *)
(* path id); Resume... is the store operation the handler is suspended at. *)
(* The handler of slot p keeps its local variables in inflight[p].         *)
(***************************************************************************)
Suspend(p, frame) == inflight' = [inflight EXCEPT ![p] = frame]

Finish(p, response) ==
    /\ inflight' = [inflight EXCEPT ![p] = Idle]
    /\ resp' = response

Done(op) == [op |-> op, status |-> 200]

\* whether another handler is suspended
Overlapped(p) == \E q \in Procs \ {p} : inflight[q].pc # "idle"

\* {"$inc": {"total_energy_consumed": ..., "total_energy_produced": ...},
\*  "$set": {"current_power_draw": ..., "last_energy_reading": ...}} on the
\* device of this id; `device` is the document the handler read at its start.
\* The variation writes the totals back from that document.
UpdateDeviceStatisticsReadWrite(device_id, device, data) ==
    IF device_id \notin DOMAIN devices THEN devices
    ELSE [devices EXCEPT ![device_id] =
            [@ EXCEPT
               !.total_energy_consumed =
                   device.total_energy_consumed + data.energy_consumption_kwh,
               !.total_energy_produced =
                   device.total_energy_produced + data.energy_production_kwh,
               !.current_power_draw = data.power_consumption_watts,
               !.last_energy_reading = Some(data.timestamp)]]

UpdateDeviceStatistics(device_id, device, data) ==
    IF device_id \notin DOMAIN devices THEN devices
    ELSE [devices EXCEPT ![device_id] =
            [@ EXCEPT
               !.total_energy_consumed = @ + data.energy_consumption_kwh,
               !.total_energy_produced = @ + data.energy_production_kwh,
               !.current_power_draw = data.power_consumption_watts,
               !.last_energy_reading = Some(data.timestamp)]]

\* {"$inc": {"total_energy_consumed": ..., "total_energy_produced": ...}} on
\* the user of this id
UpdateUserStatistics(user_id, data) ==
    IF user_id \notin DOMAIN users THEN users
    ELSE [users EXCEPT ![user_id] =
            [@ EXCEPT
               !.total_energy_consumed = @ + data.energy_consumption_kwh,
               !.total_energy_produced = @ + data.energy_production_kwh]]

\* {"$inc": {"device_count": n}} on the user of this id
IncDeviceCount(user_id, n) ==
    IF user_id \notin DOMAIN users THEN users
    ELSE [users EXCEPT ![user_id].device_count = @ + n]

\* energy.py: POST /devices/{device_id}/energy-data/
BeginCreateEnergyData(p, device_id, in) ==
    /\ variant = "raw"
    /\ inflight[p].pc = "idle"
    /\ IF device_id \notin DOMAIN devices
       THEN /\ resp' = NotFound("create_energy_data", "Device not found")
            /\ UNCHANGED inflight
       ELSE /\ Suspend(p, [ pc |-> "insert_energy_data",
                            device_id |-> device_id,
                            device |-> devices[device_id],
                            data |-> Reading(device_id, devices[device_id].user_id, in),
                            overlapped |-> Overlapped(p) ])
            /\ UNCHANGED resp
    /\ UNCHANGED <<variant, users, devices, energy_data, now, oids, mongo>>

ResumeCreateEnergyData(p) ==
    LET frame == inflight[p]
    IN  \/ /\ frame.pc = "insert_energy_data"
           /\ energy_data' = Append(energy_data, frame.data)
           /\ Suspend(p, [frame EXCEPT !.pc = "update_device_statistics"])
           /\ UNCHANGED <<variant, users, devices, now, resp, oids, mongo>>
        \/ /\ frame.pc = "update_device_statistics"
           /\ devices' = UpdateDeviceStatistics(frame.device_id, frame.device, frame.data)
           /\ Suspend(p, [frame EXCEPT !.pc = "update_user_statistics"])
           /\ UNCHANGED <<variant, users, energy_data, now, resp, oids, mongo>>
        \/ /\ frame.pc = "update_user_statistics"
           /\ users' = UpdateUserStatistics(frame.device.user_id, frame.data)
           /\ Finish(p, [ op |-> "create_energy_data", status |-> 200,
                          body |-> frame.data, overlapped |-> frame.overlapped ])
           /\ UNCHANGED <<variant, devices, energy_data, now, oids, mongo>>

\* variation of delete_device: the device's readings are left in place
ResumeDeleteDeviceOnly(p) ==
    LET frame == inflight[p]
    IN  \/ /\ frame.pc = "delete_device_energy_data"
           /\ Suspend(p, [frame EXCEPT !.pc = "delete_device"])
           /\ UNCHANGED <<variant, users, devices, energy_data, now, resp, oids, mongo>>
        \/ /\ frame.pc = "delete_device"
           /\ devices' = [d \in DOMAIN devices \ {frame.device_id} |-> devices[d]]
           /\ Suspend(p, [frame EXCEPT !.pc = "decrement_device_count"])
           /\ UNCHANGED <<variant, users, energy_data, now, resp, oids, mongo>>
        \/ /\ frame.pc = "decrement_device_count"
           /\ users' = IncDeviceCount(frame.device.user_id, -1)
           /\ Finish(p, Done("delete_device") @@ [req |-> [device_id |-> frame.device_id]])
           /\ UNCHANGED <<variant, devices, energy_data, now, oids, mongo>>

\* energy.py: DELETE /devices/{device_id}
BeginDeleteDevice(p, device_id) ==
    /\ variant = "raw"
    /\ inflight[p].pc = "idle"
    /\ IF device_id \notin DOMAIN devices
       THEN /\ resp' = NotFound("delete_device", "Device not found")
            /\ UNCHANGED inflight
       ELSE /\ Suspend(p, [ pc |-> "delete_device_energy_data",
                            device_id |-> device_id,
                            device |-> devices[device_id] ])
            /\ UNCHANGED resp
    /\ UNCHANGED <<variant, users, devices, energy_data, now, oids, mongo>>

ResumeDeleteDevice(p) ==
    LET frame == inflight[p]
    IN  \/ /\ frame.pc = "delete_device_energy_data"
           /\ energy_data' =
                  SelectSeq(energy_data, LAMBDA r : r.device_id # frame.device_id)
           /\ Suspend(p, [frame EXCEPT !.pc = "delete_device"])
           /\ UNCHANGED <<variant, users, devices, now, resp, oids, mongo>>
        \/ /\ frame.pc = "delete_device"
           /\ devices' = [d \in DOMAIN devices \ {frame.device_id} |-> devices[d]]
           /\ Suspend(p, [frame EXCEPT !.pc = "decrement_device_count"])
           /\ UNCHANGED <<variant, users, energy_data, now, resp, oids, mongo>>
        \/ /\ frame.pc = "decrement_device_count"
           /\ users' = IncDeviceCount(frame.device.user_id, -1)
           /\ Finish(p, Done("delete_device") @@ [req |-> [device_id |-> frame.device_id]])
           /\ UNCHANGED <<variant, devices, energy_data, now, oids, mongo>>

\* energy.py: DELETE /users/{user_id}
BeginDeleteUser(p, user_id) ==
    /\ variant = "raw"
    /\ inflight[p].pc = "idle"
    /\ IF user_id \notin DOMAIN users
       THEN /\ resp' = NotFound("delete_user", "User not found")
            /\ UNCHANGED inflight
       ELSE /\ Suspend(p, [pc |-> "delete_user_devices", user_id |-> user_id])
            /\ UNCHANGED resp
    /\ UNCHANGED <<variant, users, devices, energy_data, now, oids, mongo>>

ResumeDeleteUser(p) ==
    LET frame == inflight[p]
    IN  \/ /\ frame.pc = "delete_user_devices"
           /\ devices' = [d \in {x \in DOMAIN devices :
                                    devices[x].user_id # frame.user_id} |-> devices[d]]
           /\ Suspend(p, [frame EXCEPT !.pc = "delete_user_energy_data"])
           /\ UNCHANGED <<variant, users, energy_data, now, resp, oids, mongo>>
        \/ /\ frame.pc = "delete_user_energy_data"
           /\ energy_data' =
                  SelectSeq(energy_data, LAMBDA r : r.user_id # frame.user_id)
           /\ Suspend(p, [frame EXCEPT !.pc = "delete_user"])
           /\ UNCHANGED <<variant, users, devices, now, resp, oids, mongo>>
        \/ /\ frame.pc = "delete_user"
           /\ users' = [u \in DOMAIN users \ {frame.user_id} |-> users[u]]
           /\ Finish(p, Done("delete_user") @@ [req |-> [user_id |-> frame.user_id]])
           /\ UNCHANGED <<variant, devices, energy_data, now, oids, mongo>>

\* energy.py: POST /users/{user_id}/devices/
BeginCreateDevice(p, user_id) ==
    /\ variant = "raw"
    /\ inflight[p].pc = "idle"
    /\ IF user_id \notin DOMAIN users
       THEN /\ resp' = NotFound("create_device", "User not found")
            /\ UNCHANGED inflight
       ELSE /\ Suspend(p, [pc |-> "insert_device", user_id |-> user_id])
            /\ UNCHANGED resp
    /\ UNCHANGED <<variant, users, devices, energy_data, now, oids, mongo>>

ResumeCreateDevice(p) ==
    LET frame == inflight[p]
    IN  \/ /\ frame.pc = "insert_device"
           /\ devices' = (DeviceIds[oids.devices + 1] :>
                             [NewDevice(frame.user_id) EXCEPT
                                 !.current_power_draw = Some(0)]) @@ devices
           /\ oids' = [oids EXCEPT !.devices = @ + 1]
           /\ Suspend(p, [frame EXCEPT !.pc = "increment_device_count"])
           /\ UNCHANGED <<variant, users, energy_data, now, resp, mongo>>
        \/ /\ frame.pc = "increment_device_count"
           /\ users' = IncDeviceCount(frame.user_id, 1)
           /\ Finish(p, Done("create_device"))
           /\ UNCHANGED <<variant, devices, energy_data, now, oids, mongo>>

\* energy.py: POST /users/
BeginCreateUser(p, user) ==
    /\ variant = "raw"
    /\ inflight[p].pc = "idle"
    /\ IF \E u \in DOMAIN users :
             users[u].email = user.email \/ users[u].username = user.username
       THEN /\ resp' = [ op |-> "create_user", status |-> 400,
                         detail |-> "User with this email or username already exists" ]
            /\ UNCHANGED inflight
       ELSE /\ Suspend(p, [pc |-> "insert_user", user |-> user])
            /\ UNCHANGED resp
    /\ UNCHANGED <<variant, users, devices, energy_data, now, oids, mongo>>

ResumeCreateUser(p) ==
    LET frame == inflight[p]
    IN  /\ frame.pc = "insert_user"
        /\ users' = (UserIds[oids.users + 1] :> NewUser(frame.user)) @@ users
        /\ oids' = [oids EXCEPT !.users = @ + 1]
        /\ Finish(p, Done("create_user"))
        /\ UNCHANGED <<variant, devices, energy_data, now, mongo>>

\* {"$set": update_data}: the fields the request sets (exclude_unset)
SetFields(user, user_update) ==
    [user EXCEPT !.email = IfNull(user_update.email, @),
                 !.username = IfNull(user_update.username, @)]

\* energy.py: PUT /users/{user_id}
BeginUpdateUser(p, user_id, user_update) ==
    /\ variant = "raw"
    /\ inflight[p].pc = "idle"
    /\ IF user_id \notin DOMAIN users
       THEN /\ resp' = NotFound("update_user", "User not found")
            /\ UNCHANGED inflight
       ELSE /\ Suspend(p, [ pc |-> "update_user", user_id |-> user_id,
                            user_update |-> user_update ])
            /\ UNCHANGED resp
    /\ UNCHANGED <<variant, users, devices, energy_data, now, oids, mongo>>

ResumeUpdateUser(p) ==
    LET frame == inflight[p]
    IN  \/ /\ frame.pc = "update_user"
           /\ IF frame.user_id \in DOMAIN users
              THEN /\ users' = [users EXCEPT ![frame.user_id] =
                                   SetFields(@, frame.user_update)]
                   /\ Suspend(p, [frame EXCEPT !.pc = "get_updated_user"])
                   /\ UNCHANGED resp
              ELSE /\ Finish(p, [ op |-> "update_user", status |-> 400,
                                  detail |-> "No changes made" ])
                   /\ UNCHANGED users
           /\ UNCHANGED <<variant, devices, energy_data, now, oids, mongo>>
        \/ /\ frame.pc = "get_updated_user"
           /\ Finish(p, IF frame.user_id \in DOMAIN users
                        THEN Done("update_user") ELSE ServerError("update_user"))
           /\ UNCHANGED <<variant, users, devices, energy_data, now, oids, mongo>>

(***************************************************************************)
(* Inputs of the step-by-step specifications.                              *)
(***************************************************************************)
\* the number of handlers suspended at this store operation
Suspended(pc) == Cardinality({p \in Procs : inflight[p].pc = pc})

\* a reading of the consuming fixture, stamped by the server
StepBodies == Bodies({Values(80, 0, None, Some(1800))}, {None})

NewIdentity == [email |-> "cat@example.com", username |-> "cat"]

(***************************************************************************)
(* Life cycle: users, devices and readings created and deleted by handlers *)
(* that interleave at their store operations.                              *)
(***************************************************************************)
NextLifecycle ==
    \/ /\ oids.users + Suspended("insert_user") < Len(UserIds)
       /\ \E p \in Procs : BeginCreateUser(p, NewIdentity)
    \/ \E p \in Procs : ResumeCreateUser(p)
    \/ \E p \in Procs, user_id \in {"u1"} : BeginDeleteUser(p, user_id)
    \/ \E p \in Procs : ResumeDeleteUser(p)
    \/ /\ oids.devices + Suspended("insert_device") < Len(DeviceIds)
       /\ \E p \in Procs, user_id \in {"u1"} : BeginCreateDevice(p, user_id)
    \/ \E p \in Procs : ResumeCreateDevice(p)
    \/ \E p \in Procs, device_id \in {"d1"} : BeginDeleteDevice(p, device_id)
    \/ \E p \in Procs : ResumeDeleteDevice(p)
    \/ /\ Len(energy_data) + Suspended("insert_energy_data") < MaxStepReadings
       /\ \E p \in Procs, device_id \in {"d1"}, in \in StepBodies :
             BeginCreateEnergyData(p, device_id, in)
    \/ \E p \in Procs : ResumeCreateEnergyData(p)

SpecLifecycle == InitRaw /\ [][NextLifecycle]_vars

(***************************************************************************)
(* Ingestion of any request body the schema accepts (EnergyDataCreate      *)
(* declares plain floats): well-formed values, a negative consumption,     *)
(* production and cost, and a humidity outside 0..100.                     *)
(***************************************************************************)
IngestValues ==
    { [Values(80, 0, Some(12), Some(1800)) EXCEPT !.humidity = Some(40)],
      Values(-80, 0, None, Some(1800)),
      Values(0, -7, None, Some(0)),
      Values(80, 0, Some(-12), Some(1800)),
      [Values(80, 0, None, Some(1800)) EXCEPT !.humidity = Some(150)] }

NextIngest ==
    \/ Tick
    \/ /\ Len(energy_data) < MaxStepReadings
       /\ \E device_id \in {"d1", "d3", UnknownDevice},
             in \in Bodies(IngestValues, {None}) :
             CreateEnergyData(device_id, in)

SpecIngest == InitRaw /\ [][NextIngest]_vars

(***************************************************************************)
(* User identities: create_user and update_user interleaved.  The store    *)
(* enforces no uniqueness: the unique indexes of database.py would be      *)
(* created through app.models.users.User, a name that module does not      *)
(* define, so the import fails and no index is created.                    *)
(***************************************************************************)
NoUpdate == [email |-> None, username |-> None]

IdentityUpdates ==
    { [NoUpdate EXCEPT !.email = Some("ann@example.com")],
      [NoUpdate EXCEPT !.username = Some("cat")],
      [NoUpdate EXCEPT !.email = Some("bob@example.net")] }

NextUsers ==
    \/ /\ oids.users + Suspended("insert_user") < Len(UserIds)
       /\ \E p \in Procs : BeginCreateUser(p, NewIdentity)
    \/ \E p \in Procs : ResumeCreateUser(p)
    \/ \E p \in Procs, user_id \in {"u2", "u3", UnknownUser},
          user_update \in IdentityUpdates :
          BeginUpdateUser(p, user_id, user_update)
    \/ \E p \in Procs : ResumeUpdateUser(p)

SpecUsers == InitRaw /\ [][NextUsers]_vars

(***************************************************************************)
(* Rolling counters, one request at a time: a single slot serves every     *)
(* request, so a handler completes before the next one starts.             *)
(***************************************************************************)
CounterDevices == {"d1", "d2"}

NextCounters ==
    \/ /\ Len(energy_data) + Suspended("insert_energy_data") < MaxStepReadings
       /\ \E device_id \in CounterDevices, in \in StepBodies :
             BeginCreateEnergyData(1, device_id, in)
    \/ ResumeCreateEnergyData(1)
    \/ \E device_id \in CounterDevices : BeginDeleteDevice(1, device_id)
    \/ ResumeDeleteDevice(1)
    \/ \E user_id \in {"u1"} : BeginDeleteUser(1, user_id)
    \/ ResumeDeleteUser(1)

SpecCounters == InitRaw /\ [][NextCounters]_vars

(***************************************************************************)
(* Rolling counters under concurrency: create_energy_data requests for the *)
(* devices of one user, in every slot.                                     *)
(***************************************************************************)
RaceValues == {Values(80, 0, None, Some(1800)), Values(100, 5, Some(12), Some(600))}

NextRace ==
    \/ /\ Len(energy_data) + Suspended("insert_energy_data") < MaxStepReadings
       /\ \E p \in Procs, device_id \in CounterDevices,
               in \in Bodies(RaceValues, {None}) :
             BeginCreateEnergyData(p, device_id, in)
    \/ \E p \in Procs : ResumeCreateEnergyData(p)

SpecRace == InitRaw /\ [][NextRace]_vars

(***************************************************************************)
(* The aggregation operations together, over a store that ingestion fills: *)
(* period statistics and daily buckets of both bindings and the period     *)
(* comparison, each asked for a user with readings and for an unknown      *)
(* user.  Readings fall on two calendar days, in either storage order.     *)
(***************************************************************************)
AggregateTimes == {Some(T0 - Days(1)), Some(T0)}

AggregateValues == {v \in RawValues : v.energy_consumption_kwh > 0}

AggregateStats ==
    { StatsRequest("u1", Some(T0 - Days(1)), Some(T0)),
      StatsRequest("u1", Some(T0), Some(T0 - Days(1))),
      StatsRequest(UnknownUser, Some(T0 - Days(1)), Some(T0)) }

AggregateDaily == {<<"u1", 2>>, <<UnknownUser, 2>>}

AggregateCompare ==
    { [ user_id |-> u, start_date |-> T0, end_date |-> T0 + 1,
        comparison_start_date |-> Some(T0 - Days(1)),
        comparison_end_date |-> Some(T0 - 1) ] : u \in {"u1", UnknownUser} }

NextAggregate ==
    \/ Tick
    \/ /\ Len(energy_data) < MaxAggregateReadings
       /\ \E device_id \in {"d1", "d3"}, in \in Bodies(AggregateValues, AggregateTimes) :
             CreateEnergyData(device_id, in)
    \/ /\ Len(energy_data) < MaxAggregateReadings
       /\ \E device_id \in {"d1", "d3"}, in \in Bodies(AggregateValues, AggregateTimes) :
             CreateEnergyDataMongo(device_id, in)
    \/ \E r \in AggregateStats :
          GetUserEnergyStats(r.user_id, r.start_date, r.end_date)
    \/ \E r \in AggregateStats :
          GetUserEnergyStatsMongo(r.user_id, r.start_date, r.end_date)
    \/ \E r \in AggregateDaily : GetUserDailyStats(r[1], r[2])
    \/ \E r \in AggregateDaily : GetUserDailyStatsMongo(r[1], r[2])
    \/ \E request \in AggregateCompare : CompareEnergyUsage(request.user_id, request)

SpecAggregate == Init /\ [][NextAggregate]_vars

(***************************************************************************)
(* The user and device endpoints of energy_mongo.py (soft deletion).  A    *)
(* device update carries the is_active field of DeviceUpdate when the      *)
(* request sets it; a user update carries email and username.  The device  *)
(* update and delete are given one store operation at a time, the other    *)
(* handlers as a whole.                                                    *)
(***************************************************************************)
\* energy_mongo.py: POST /users/
CreateUserMongo(user) ==
    /\ variant = "odm"
    /\ IF \E u \in DOMAIN users :
             users[u].email = user.email \/ users[u].username = user.username
       THEN /\ resp' = [ op |-> "create_user", status |-> 400,
                         detail |-> "User with this email or username already exists" ]
            /\ UNCHANGED <<users, oids>>
       ELSE /\ users' = (UserIds[oids.users + 1] :> NewUser(user)) @@ users
            /\ oids' = [oids EXCEPT !.users = @ + 1]
            /\ resp' = Done("create_user")
    /\ UNCHANGED <<variant, devices, energy_data, now, inflight, mongo>>

\* energy_mongo.py: GET /users/{user_id}
GetUserMongo(user_id) ==
    /\ variant = "odm"
    /\ resp' = (IF user_id \notin DOMAIN users \/ ~users[user_id].is_active
                THEN NotFound("get_user", "User not found")
                ELSE Done("get_user")) @@ [req |-> [user_id |-> user_id]]
    /\ UNCHANGED <<variant, users, devices, energy_data, now, inflight, oids, mongo>>

\* energy_mongo.py: PUT /users/{user_id}
UpdateUserMongo(user_id, user_update) ==
    /\ variant = "odm"
    /\ IF user_id \notin DOMAIN users \/ ~users[user_id].is_active
       THEN /\ resp' = NotFound("update_user", "User not found")
                           @@ [req |-> [user_id |-> user_id]]
            /\ UNCHANGED users
       ELSE /\ users' = [users EXCEPT ![user_id] = SetFields(@, user_update)]
            /\ resp' = Done("update_user") @@ [req |-> [user_id |-> user_id]]
    /\ UNCHANGED <<variant, devices, energy_data, now, inflight, oids, mongo>>

\* energy_mongo.py: DELETE /users/{user_id}
DeleteUserMongo(user_id) ==
    /\ variant = "odm"
    /\ IF user_id \notin DOMAIN users \/ ~users[user_id].is_active
       THEN /\ resp' = NotFound("delete_user", "User not found")
                           @@ [req |-> [user_id |-> user_id]]
            /\ UNCHANGED users
       ELSE /\ users' = [users EXCEPT ![user_id].is_active = FALSE]
            /\ resp' = Done("delete_user") @@ [req |-> [user_id |-> user_id]]
    /\ UNCHANGED <<variant, devices, energy_data, now, inflight, oids, mongo>>

\* energy_mongo.py: POST /users/{user_id}/devices/
CreateDeviceMongo(user_id) ==
    /\ variant = "odm"
    /\ IF user_id \notin DOMAIN users \/ ~users[user_id].is_active
       THEN /\ resp' = NotFound("create_device", "User not found")
            /\ UNCHANGED <<devices, oids>>
       ELSE /\ devices' = (DeviceIds[oids.devices + 1] :> NewDevice(user_id)) @@ devices
            /\ oids' = [oids EXCEPT !.devices = @ + 1]
            /\ resp' = Done("create_device")
    /\ UNCHANGED <<variant, users, energy_data, now, inflight, mongo>>

\* energy_mongo.py: GET /devices/{device_id}
GetDeviceMongo(device_id) ==
    /\ variant = "odm"
    /\ resp' = (IF device_id \notin DOMAIN devices \/ ~devices[device_id].is_active
                THEN NotFound("get_device", "Device not found")
                ELSE Done("get_device")) @@ [req |-> [device_id |-> device_id]]
    /\ UNCHANGED <<variant, users, devices, energy_data, now, inflight, oids, mongo>>

\* energy_mongo.py: PUT /devices/{device_id}
BeginUpdateDeviceMongo(p, device_id, device_update) ==
    /\ variant = "odm"
    /\ inflight[p].pc = "idle"
    /\ IF device_id \notin DOMAIN devices \/ ~devices[device_id].is_active
       THEN /\ resp' = NotFound("update_device", "Device not found")
                           @@ [req |-> [device_id |-> device_id]]
            /\ UNCHANGED inflight
       ELSE /\ Suspend(p, [ pc |-> IF IsSome(device_update.is_active)
                                   THEN "set_device_document" ELSE "get_device_document",
                            device_id |-> device_id,
                            device_update |-> device_update ])
            /\ UNCHANGED resp
    /\ UNCHANGED <<variant, users, devices, energy_data, now, oids, mongo>>

ResumeUpdateDeviceMongo(p) ==
    LET frame == inflight[p]
    IN  \/ /\ frame.pc = "set_device_document"
           /\ devices' = [devices EXCEPT ![frame.device_id].is_active =
                              Get(frame.device_update.is_active)]
           /\ Suspend(p, [frame EXCEPT !.pc = "get_device_document"])
           /\ UNCHANGED <<variant, users, energy_data, now, resp, oids, mongo>>
        \/ /\ frame.pc = "get_device_document"
           /\ Finish(p, Done("update_device") @@ [req |-> [device_id |-> frame.device_id]])
           /\ UNCHANGED <<variant, users, devices, energy_data, now, oids, mongo>>

\* energy_mongo.py: DELETE /devices/{device_id}
BeginDeleteDeviceMongo(p, device_id) ==
    /\ variant = "odm"
    /\ inflight[p].pc = "idle"
    /\ IF device_id \notin DOMAIN devices \/ ~devices[device_id].is_active
       THEN /\ resp' = NotFound("delete_device", "Device not found")
                           @@ [req |-> [device_id |-> device_id]]
            /\ UNCHANGED inflight
       ELSE /\ Suspend(p, [pc |-> "deactivate_device", device_id |-> device_id])
            /\ UNCHANGED resp
    /\ UNCHANGED <<variant, users, devices, energy_data, now, oids, mongo>>

ResumeDeleteDeviceMongo(p) ==
    LET frame == inflight[p]
    IN  /\ frame.pc = "deactivate_device"
        /\ devices' = [devices EXCEPT ![frame.device_id].is_active = FALSE]
        /\ Finish(p, Done("delete_device") @@ [req |-> [device_id |-> frame.device_id]])
        /\ UNCHANGED <<variant, users, energy_data, now, oids, mongo>>

\* energy.py: PUT /devices/{device_id}
BeginUpdateDevice(p, device_id, device_update) ==
    /\ variant = "raw"
    /\ inflight[p].pc = "idle"
    /\ IF device_id \notin DOMAIN devices
       THEN /\ resp' = NotFound("update_device", "Device not found")
            /\ UNCHANGED inflight
       ELSE /\ Suspend(p, [ pc |-> "update_device", device_id |-> device_id,
                            device_update |-> device_update ])
            /\ UNCHANGED resp
    /\ UNCHANGED <<variant, users, devices, energy_data, now, oids, mongo>>

ResumeUpdateDevice(p) ==
    LET frame == inflight[p]
    IN  \/ /\ frame.pc = "update_device"
           /\ IF frame.device_id \in DOMAIN devices
              THEN /\ devices' = [devices EXCEPT ![frame.device_id].is_active =
                                     IfNull(frame.device_update.is_active, @)]
                   /\ Suspend(p, [frame EXCEPT !.pc = "get_updated_device"])
                   /\ UNCHANGED resp
              ELSE /\ Finish(p, [ op |-> "update_device", status |-> 400,
                                  detail |-> "No changes made" ])
                   /\ UNCHANGED devices
           /\ UNCHANGED <<variant, users, energy_data, now, oids, mongo>>
        \/ /\ frame.pc = "get_updated_device"
           /\ Finish(p, IF frame.device_id \in DOMAIN devices
                        THEN Done("update_device") ELSE ServerError("update_device"))
           /\ UNCHANGED <<variant, users, devices, energy_data, now, oids, mongo>>

(***************************************************************************)
(* Every mutating endpoint of both bindings, for stored, deactivated and   *)
(* unknown ids and a user created twice.  Slot 1 serves the requests one   *)
(* at a time, except that a hard delete may also run in slot 2, so that an *)
(* update can find its document gone at its write.  One user, one device   *)
(* and one reading are created at most.                                    *)
(***************************************************************************)
NextMutations ==
    \/ /\ oids.users = Cardinality(SeedUsers)
       /\ BeginCreateUser(1, NewIdentity)
    \/ ResumeCreateUser(1)
    \/ \E user_id \in {"u1", UnknownUser}, user_update \in IdentityUpdates :
          BeginUpdateUser(1, user_id, user_update)
    \/ ResumeUpdateUser(1)
    \/ \E p \in {1, 2}, user_id \in {"u1", UnknownUser} : BeginDeleteUser(p, user_id)
    \/ \E p \in {1, 2} : ResumeDeleteUser(p)
    \/ /\ oids.devices = Cardinality(DOMAIN SeedDevices)
       /\ \E user_id \in {"u1", UnknownUser} : BeginCreateDevice(1, user_id)
    \/ ResumeCreateDevice(1)
    \/ \E device_id \in {"d1", UnknownDevice}, is_active \in {None, Some(FALSE)} :
          BeginUpdateDevice(1, device_id, [is_active |-> is_active])
    \/ ResumeUpdateDevice(1)
    \/ \E p \in {1, 2}, device_id \in {"d1", UnknownDevice} :
          BeginDeleteDevice(p, device_id)
    \/ \E p \in {1, 2} : ResumeDeleteDevice(p)
    \/ /\ energy_data = <<>>
       /\ \E device_id \in {"d1", UnknownDevice}, in \in StepBodies :
             BeginCreateEnergyData(1, device_id, in)
    \/ ResumeCreateEnergyData(1)
    \/ /\ oids.users = Cardinality(SeedUsers)
       /\ CreateUserMongo(NewIdentity)
    \/ \E user_id \in {"u1", UnknownUser}, user_update \in IdentityUpdates :
          UpdateUserMongo(user_id, user_update)
    \/ \E user_id \in {"u1", UnknownUser} : DeleteUserMongo(user_id)
    \/ /\ oids.devices = Cardinality(DOMAIN SeedDevices)
       /\ \E user_id \in {"u1", UnknownUser} : CreateDeviceMongo(user_id)
    \/ \E device_id \in {"d1", UnknownDevice}, is_active \in {None, Some(FALSE)} :
          BeginUpdateDeviceMongo(1, device_id, [is_active |-> is_active])
    \/ ResumeUpdateDeviceMongo(1)
    \/ \E device_id \in {"d1", UnknownDevice} : BeginDeleteDeviceMongo(1, device_id)
    \/ ResumeDeleteDeviceMongo(1)
    \/ /\ energy_data = <<>>
       /\ \E device_id \in {"d1", UnknownDevice}, in \in StepBodies :
             CreateEnergyDataMongo(device_id, in)

SpecMutations == Init /\ [][NextMutations]_vars

(***************************************************************************)
(* The soft-deleting endpoints under concurrent requests: reads, updates   *)
(* and deletes of one user and one device, the device update setting       *)
(* is_active to either value or leaving it unset.                          *)
(***************************************************************************)
InitOdm == Init /\ variant = "odm"

NextSoftDelete ==
    \/ \E user_id \in {"u1", UnknownUser} : GetUserMongo(user_id)
    \/ \E user_id \in {"u1", UnknownUser}, user_update \in IdentityUpdates :
          UpdateUserMongo(user_id, user_update)
    \/ \E user_id \in {"u1", UnknownUser} : DeleteUserMongo(user_id)
    \/ \E device_id \in {"d1", UnknownDevice} : GetDeviceMongo(device_id)
    \/ \E p \in Procs, device_id \in {"d1", UnknownDevice},
          is_active \in {None, Some(TRUE), Some(FALSE)} :
          BeginUpdateDeviceMongo(p, device_id, [is_active |-> is_active])
    \/ \E p \in Procs : ResumeUpdateDeviceMongo(p)
    \/ \E p \in Procs, device_id \in {"d1", UnknownDevice} :
          BeginDeleteDeviceMongo(p, device_id)
    \/ \E p \in Procs : ResumeDeleteDeviceMongo(p)

SpecSoftDelete == InitOdm /\ [][NextSoftDelete]_vars

(***************************************************************************)
(* Period statistics asked with one bound only: an end more than the       *)
(* default window before the clock or at the clock, a start before the     *)
(* clock or after it.                                                      *)
(***************************************************************************)
NextWindow ==
    \/ Tick
    \/ /\ Len(energy_data) < MaxReadings
       /\ \E in \in Bodies(RawValues, {Some(T0 - Days(DefaultWindowDays) - 1), Some(T0)}) :
             CreateEnergyData("d1", in)
    \/ /\ Len(energy_data) < MaxReadings
       /\ \E in \in Bodies(OdmValues, {Some(T0 - Days(DefaultWindowDays) - 1), Some(T0)}) :
             CreateEnergyDataMongo("d1", in)
    \/ \E user_id \in {"u1", UnknownUser},
          end_date \in {Some(T0 - Days(DefaultWindowDays) - 1), Some(T0)} :
          \/ GetUserEnergyStats(user_id, None, end_date)
          \/ GetUserEnergyStatsMongo(user_id, None, end_date)
    \/ \E user_id \in {"u1", UnknownUser}, start_date \in {Some(T0 - 1), Some(T0 + Days(1))} :
          \/ GetUserEnergyStats(user_id, start_date, None)
          \/ GetUserEnergyStatsMongo(user_id, start_date, None)

SpecWindow == Init /\ [][NextWindow]_vars

(***************************************************************************)
(* The efficiency report over a store whose devices change: a device       *)
(* registered without a power rating (the default of DeviceBase), a user   *)
(* whose only device is deleted.  The AI client answers every call with a *)
(* JSON object of the structure its prompt asks for.                       *)
(***************************************************************************)
NextEfficiency ==
    \/ Tick
    \/ /\ oids.devices = Cardinality(DOMAIN SeedDevices)
       /\ \E user_id \in {"u1", "u2"} : BeginCreateDevice(1, user_id)
    \/ ResumeCreateDevice(1)
    \/ BeginDeleteDevice(1, "d3")
    \/ ResumeDeleteDevice(1)
    \/ /\ Len(energy_data) < MaxAIReadings
       /\ \E device_id \in {"d1", "d3"},
             in \in Bodies({Values(80, 0, None, Some(1800)),
                            Values(0, 7, Some(3), Some(0))}, {None}) :
             CreateEnergyData(device_id, in)
    \/ \E user_id \in {"u1", "u2", UnknownUser} :
          GetUserEfficiencyReport(user_id, [client |-> TRUE, reply |-> "structured"])

SpecEfficiency == InitRaw /\ [][NextEfficiency]_vars

(***************************************************************************)
(* A store call of create_energy_data that raises (connection lost, write  *)
(* refused): the handler's `except Exception` answers 500.  Nothing the    *)
(* handler has written before is undone.                                   *)
(***************************************************************************)
FailCreateEnergyData(p) ==
    /\ inflight[p].pc \in
          {"insert_energy_data", "update_device_statistics", "update_user_statistics"}
    /\ Finish(p, ServerError("create_energy_data"))
    /\ UNCHANGED <<variant, users, devices, energy_data, now, oids, mongo>>

\* ingestion, one request at a time, over a store whose calls may fail
NextFailure ==
    \/ /\ Len(energy_data) < MaxStepReadings
       /\ \E device_id \in {"d1", "d3", UnknownDevice},
             in \in Bodies({Values(80, 0, None, Some(1800)),
                            Values(100, 5, Some(12), Some(600))}, {None}) :
             BeginCreateEnergyData(1, device_id, in)
    \/ ResumeCreateEnergyData(1)
    \/ FailCreateEnergyData(1)

SpecFailure == InitRaw /\ [][NextFailure]_vars

(***************************************************************************)
(* The samples of readings in the prompts, over a store with more readings *)
(* of one device than a sample holds, at two instants.  The AI client      *)
(* answers with a JSON object of the structure asked for.                  *)
(***************************************************************************)
SampleRequest ==
    [start_date |-> T0 - 1, end_date |-> T0, analysis_type |-> "patterns"]

NextSample ==
    \/ /\ Len(energy_data) < MaxSampleReadings
       /\ \E in \in Bodies({Values(80, 0, None, Some(1800))}, {Some(T0 - 1), Some(T0)}) :
             CreateEnergyData("d1", in)
    \/ \E user_id \in {"u1", UnknownUser} :
          AnalyzeEnergyPatterns(user_id, SampleRequest,
                                [client |-> TRUE, reply |-> "structured"])
    \/ \E device_id \in {"d1", UnknownDevice} :
          GetDeviceOptimizationTips(device_id, [client |-> TRUE, reply |-> "structured"])

SpecSample == InitRaw /\ [][NextSample]_vars

(***************************************************************************)
(* The store handle from the start of a program to its exit                *)
(* (app/database.py, the lifespan of app/main.py, main of                  *)
(* create_mongodb.py).  mongo.beanie is the database init_beanie was given.*)
(* Whether init_beanie raises on a database that is None is the library's: *)
(* both outcomes are modelled.                                             *)
(***************************************************************************)
\* database.py: connect_to_mongo; the ping may fail, and the exception ends
\* the script before its try/finally
ConnectToMongo ==
    /\ mongo.pc = "connect_to_mongo"
    /\ \E ping \in BOOLEAN :
          mongo' = [mongo EXCEPT !.mongodb_client = "open",
                                 !.mongodb_database = "set",
                                 !.pc = IF ping THEN "init_db" ELSE "exited"]
    /\ UNCHANGED <<variant, users, devices, energy_data, now, resp, inflight, oids>>

\* database.py: init_db, awaited by lifespan before its yield and by the
\* script after connect_to_mongo.  An exception ends the startup of the API
\* (lifespan has no try/finally); the script goes to its finally clause.
InitDb ==
    /\ mongo.pc = "init_db"
    /\ \E raises \in IF mongo.mongodb_database = "set" THEN {FALSE} ELSE BOOLEAN :
          mongo' = [mongo EXCEPT
                      !.beanie = mongo.mongodb_database,
                      !.pc = IF mongo.program = "app"
                             THEN (IF raises THEN "exited" ELSE "serving")
                             ELSE "close_mongo_connection"]
    /\ UNCHANGED <<variant, users, devices, energy_data, now, resp, inflight, oids>>

\* a request of the serving API: the handler obtains the handle from
\* get_database (energy.py:25-27, database.py:40-42); every call on a handle
\* that is unset raises, which the handler turns into a 500
ServeRequest(op, id) ==
    /\ mongo.pc = "serving"
    /\ resp' = (IF mongo.mongodb_database = "set" THEN [op |-> op, status |-> 200]
                ELSE ServerError(op))
                  @@ [req |-> [id |-> id], database |-> mongo.mongodb_database]
    /\ UNCHANGED <<variant, users, devices, energy_data, now, inflight, oids, mongo>>

\* the shutdown of the API (lifespan after its yield)
LifespanShutdown ==
    /\ mongo.pc = "serving"
    /\ mongo' = [mongo EXCEPT !.pc = "close_mongo_connection"]
    /\ UNCHANGED <<variant, users, devices, energy_data, now, resp, inflight, oids>>

\* database.py: close_mongo_connection closes a client that is set
CloseMongoConnection ==
    /\ mongo.pc = "close_mongo_connection"
    /\ mongo' = [mongo EXCEPT
                   !.mongodb_client = IF @ = "open" THEN "closed" ELSE @,
                   !.pc = "exited"]
    /\ UNCHANGED <<variant, users, devices, energy_data, now, resp, inflight, oids>>

NextLifespan ==
    \/ Tick
    \/ ConnectToMongo
    \/ InitDb
    \/ \E op \in {"get_user", "get_device", "create_energy_data", "energy_stats",
                  "daily_stats", "recommendations"},
          id \in {"u1", "d1", UnknownUser} : ServeRequest(op, id)
    \/ LifespanShutdown
    \/ CloseMongoConnection

InitProcess == InitStore /\ mongo \in {Started("app"), Started("script")}

SpecLifespan == InitProcess /\ [][NextLifespan]_vars

(***************************************************************************)
(* Reference definitions for the properties: the readings of a user in a   *)
(* closed interval as a set of positions of the collection, and sums over  *)
(* such a set.                                                             *)
(***************************************************************************)
Window(user_id, start, end) ==
    { i \in 1..Len(energy_data) :
        /\ energy_data[i].user_id = user_id
        /\ start <= energy_data[i].timestamp
        /\ energy_data[i].timestamp <= end }

RECURSIVE SumOver(_, _)
SumOver(S, f) ==
    IF S = {} THEN 0
    ELSE LET i == CHOOSE x \in S : TRUE IN f[i] + SumOver(S \ {i}, f)

Consumption == [i \in 1..Len(energy_data) |-> energy_data[i].energy_consumption_kwh]

Production == [i \in 1..Len(energy_data) |-> energy_data[i].energy_production_kwh]

Cost ==
    [i \in 1..Len(energy_data) |->
        IF energy_data[i].total_cost = None THEN 0 ELSE energy_data[i].total_cost[1]]

WithPower(S) == {i \in S : energy_data[i].power_consumption_watts # None}

Power ==
    [i \in 1..Len(energy_data) |->
        IF energy_data[i].power_consumption_watts = None THEN 0
        ELSE energy_data[i].power_consumption_watts[1]]

\* a successful period-statistics response, and its fields in either binding
StatsOk == resp.op = "energy_stats" /\ resp.status = 200

StatsWindow ==
    Window(resp.req.user_id, resp.body.period_start, resp.body.period_end)

StatsTotals ==
    IF variant = "raw"
    THEN << resp.body.total_energy_consumed, resp.body.total_energy_produced,
            resp.body.total_cost >>
    ELSE << resp.body.total_consumption_kwh, resp.body.total_production_kwh,
            resp.body.total_cost_usd >>

StatsCount ==
    IF variant = "raw" THEN resp.body.data_points_count ELSE resp.body.device_count

StatsAverage ==
    IF variant = "raw" THEN resp.body.average_power_consumption
    ELSE resp.body.average_power_watts

StatsPeak ==
    IF variant = "raw" THEN resp.body.peak_power_consumption
    ELSE resp.body.peak_power_watts

(***************************************************************************)
(* C1: a user-scoped statistics response over an interval that holds no    *)
(* reading of the user has totals 0, count 0, and null average and peak    *)
(* power.  The raw binding answers 0.0 for the average and the peak.       *)
(***************************************************************************)
C1_EmptySummaryHasNullPower ==
    (StatsOk /\ StatsWindow = {}) =>
        /\ StatsTotals = <<0, 0, 0>>
        /\ StatsCount = 0
        /\ StatsAverage = None
        /\ StatsPeak = None

(***************************************************************************)
(* C2: the totals of a statistics response are the sums of consumption,    *)
(* production and cost (an absent cost counting 0) over exactly the        *)
(* readings of the requested user with start <= timestamp <= end, where    *)
(* start and end are the requested bounds when they are given.             *)
(***************************************************************************)
C2_TotalsAreSums ==
    StatsOk =>
        /\ IsSome(resp.req.start_date) => resp.body.period_start = resp.req.start_date[1]
        /\ IsSome(resp.req.end_date) => resp.body.period_end = resp.req.end_date[1]
        /\ StatsTotals = << SumOver(StatsWindow, Consumption),
                            SumOver(StatsWindow, Production),
                            SumOver(StatsWindow, Cost) >>

\* a response over an interval that holds a reading without cost, while the
\* store also holds a reading of another user inside the interval
C2_Witness ==
    /\ StatsOk
    /\ \E i \in StatsWindow :
          energy_data[i].total_cost = None /\ energy_data[i].energy_consumption_kwh > 0
    /\ \E j \in 1..Len(energy_data) :
          /\ energy_data[j].user_id # resp.req.user_id
          /\ resp.body.period_start <= energy_data[j].timestamp
          /\ energy_data[j].timestamp <= resp.body.period_end
          /\ energy_data[j].energy_consumption_kwh > 0

(***************************************************************************)
(* C3: over a non-empty set of in-range readings the average power is the  *)
(* mean and the peak power the maximum of the non-null power values; both  *)
(* are null when every in-range reading has null power.                    *)
(***************************************************************************)
C3_MeanAndPeak ==
    (StatsOk /\ StatsWindow # {}) =>
        LET P == WithPower(StatsWindow)
        IN  IF P = {}
            THEN StatsAverage = None /\ StatsPeak = None
            ELSE /\ IsSome(StatsAverage)
                 /\ StatsAverage[1][2] > 0
                 /\ StatsAverage[1][1] * Cardinality(P)
                      = SumOver(P, Power) * StatsAverage[1][2]
                 /\ IsSome(StatsPeak)
                 /\ \E i \in P : Power[i] = StatsPeak[1]
                 /\ \A i \in P : Power[i] <= StatsPeak[1]

\* a response over an interval that holds a reading with a power value and a
\* reading with null power
C3_Witness ==
    /\ StatsOk
    /\ WithPower(StatsWindow) # {}
    /\ WithPower(StatsWindow) # StatsWindow

(***************************************************************************)
(* C4: without start_date and end_date the interval is                     *)
(* [now - 30 days, now], now being the clock at the request, and both      *)
(* bounds are inclusive: the totals count the readings stamped exactly     *)
(* now - 30 days and exactly now.                                          *)
(***************************************************************************)
C4_DefaultWindow ==
    (StatsOk /\ resp.req.start_date = None /\ resp.req.end_date = None) =>
        LET W == { i \in 1..Len(energy_data) :
                     /\ energy_data[i].user_id = resp.req.user_id
                     /\ resp.req.at - DefaultWindowDays * TicksPerDay
                          <= energy_data[i].timestamp
                     /\ energy_data[i].timestamp <= resp.req.at }
        IN  /\ resp.body.period_start = resp.req.at - DefaultWindowDays * TicksPerDay
            /\ resp.body.period_end = resp.req.at
            /\ StatsTotals[1] = SumOver(W, Consumption)
            /\ variant = "raw" => resp.body.data_points_count = Cardinality(W)

\* a default-window response with a consuming reading of the user stamped at
\* the start of the window and another stamped at its end
C4_Witness ==
    /\ StatsOk /\ resp.req.start_date = None /\ resp.req.end_date = None
    /\ \E i, j \in 1..Len(energy_data) :
          /\ energy_data[i].user_id = resp.req.user_id
          /\ energy_data[j].user_id = resp.req.user_id
          /\ energy_data[i].energy_consumption_kwh > 0
          /\ energy_data[j].energy_consumption_kwh > 0
          /\ energy_data[i].timestamp = resp.req.at - DefaultWindowDays * TicksPerDay
          /\ energy_data[j].timestamp = resp.req.at

(***************************************************************************)
(* C5: a statistics or comparison request with start > end is answered     *)
(* with status 400.  No handler compares the two bounds: the request is    *)
(* aggregated over the empty interval and answered with status 200.        *)
(***************************************************************************)
C5_MalformedIntervalRejected ==
    /\ ( /\ resp.op = "energy_stats"
         /\ resp.req.user_id \in DOMAIN users
         /\ IsSome(resp.req.start_date) /\ IsSome(resp.req.end_date)
         /\ resp.req.start_date[1] > resp.req.end_date[1] )
       => resp.status = 400
    /\ ( /\ resp.op = "compare_usage"
         /\ resp.req.user_id \in DOMAIN users
         /\ resp.req.start_date > resp.req.end_date )
       => resp.status = 400

(***************************************************************************)
(* Reference definitions for the daily buckets of a response: the window   *)
(* of the request, the calendar days that hold a reading of it, and the    *)
(* k-th of these days in chronological order.                              *)
(***************************************************************************)
DailyOk == resp.op = "daily_stats" /\ resp.status = 200

DailyWindow ==
    Window(resp.req.user_id, resp.req.at - resp.req.days * TicksPerDay, resp.req.at)

DaysWithData == {energy_data[i].timestamp \div TicksPerDay : i \in DailyWindow}

NthDay(k) ==
    CHOOSE d \in DaysWithData : Cardinality({e \in DaysWithData : e < d}) = k - 1

BucketConsumption(k) ==
    IF variant = "raw" THEN resp.body[k].total_energy_consumed
    ELSE resp.body[k].consumption_kwh

(***************************************************************************)
(* C6: the daily statistics hold exactly one bucket per calendar day with  *)
(* an in-range reading of the user, in strictly ascending order of the     *)
(* day whatever the storage order, each bucket dated with its day and      *)
(* totalling the consumption of that day's readings only.                  *)
(***************************************************************************)
C6_DailyBuckets ==
    DailyOk =>
        /\ Len(resp.body) = Cardinality(DaysWithData)
        /\ \A k \in 1..Len(resp.body) :
              /\ resp.body[k].date = DateToString(NthDay(k) * TicksPerDay)
              /\ BucketConsumption(k) =
                   SumOver({i \in DailyWindow :
                              energy_data[i].timestamp \div TicksPerDay = NthDay(k)},
                           Consumption)

\* a response of three buckets over readings stored against the order of
\* their timestamps
C6_Witness ==
    /\ DailyOk
    /\ Len(resp.body) = 3
    /\ \E i, j \in DailyWindow :
          i < j /\ energy_data[i].timestamp > energy_data[j].timestamp

(***************************************************************************)
(* Reference definitions for a comparison response: the two periods of    *)
(* the request and their sums.                                             *)
(***************************************************************************)
CompareOk == resp.op = "compare_usage" /\ resp.status = 200

PriorSupplied ==
    resp.req.comparison_start_date # None /\ resp.req.comparison_end_date # None

RecentWindow == Window(resp.req.user_id, resp.req.start_date, resp.req.end_date)

PriorWindow ==
    Window(resp.req.user_id, resp.req.comparison_start_date[1],
           resp.req.comparison_end_date[1])

(***************************************************************************)
(* C7: with a prior interval whose total consumption is positive,          *)
(* percentage_change = (recent - prior) / prior * 100 and                  *)
(* energy_savings = prior - recent; percentage_change is negative exactly  *)
(* when energy_savings is positive.                                        *)
(***************************************************************************)
C7_PercentageChange ==
    (CompareOk /\ PriorSupplied /\ SumOver(PriorWindow, Consumption) > 0) =>
        LET recent == SumOver(RecentWindow, Consumption)
            prior == SumOver(PriorWindow, Consumption)
            pct == resp.body.percentage_change
        IN  /\ IsSome(pct)
            /\ pct[1][2] > 0
            /\ pct[1][1] * prior = (recent - prior) * 100 * pct[1][2]
            /\ resp.body.energy_savings = <<prior - recent>>
            /\ (pct[1][1] < 0) <=> (resp.body.energy_savings[1] > 0)

\* recent 80 against prior 100: -20 percent, 20 saved
C7_Witness ==
    /\ CompareOk /\ PriorSupplied
    /\ SumOver(RecentWindow, Consumption) = 80
    /\ SumOver(PriorWindow, Consumption) = 100
    /\ resp.body.percentage_change = << <<-20, 1>> >>
    /\ resp.body.energy_savings = <<20>>

C9_CostSavings ==
    (CompareOk /\ PriorSupplied) =>
        resp.body.cost_savings =
            << SumOver(PriorWindow, Cost) - SumOver(RecentWindow, Cost) >>

(***************************************************************************)
(* C10: when a comparison bound is missing, comparison_period,             *)
(* percentage_change, cost_savings and energy_savings are null and the     *)
(* statistics of the current period are returned.                          *)
(***************************************************************************)
C10_NoPriorInterval ==
    (resp.op = "compare_usage" /\ resp.req.user_id \in DOMAIN users
       /\ ~PriorSupplied) =>
        /\ resp.status = 200
        /\ resp.body.comparison_period = None
        /\ resp.body.percentage_change = None
        /\ resp.body.cost_savings = None
        /\ resp.body.energy_savings = None
        /\ resp.body.current_period.period_start = resp.req.start_date
        /\ resp.body.current_period.period_end = resp.req.end_date
        /\ resp.body.current_period.total_energy_consumed
             = SumOver(RecentWindow, Consumption)
        /\ resp.body.current_period.total_cost = SumOver(RecentWindow, Cost)
        /\ resp.body.current_period.data_points_count = Cardinality(RecentWindow)

\* a comparison with only the start of the prior interval supplied, over a
\* store with consumption in the recent period and before it
C10_Witness ==
    /\ CompareOk
    /\ resp.req.comparison_start_date # None
    /\ resp.req.comparison_end_date = None
    /\ SumOver(RecentWindow, Consumption) > 0
    /\ \E i \in 1..Len(energy_data) :
          /\ energy_data[i].user_id = resp.req.user_id
          /\ energy_data[i].timestamp < resp.req.start_date
          /\ energy_data[i].energy_consumption_kwh > 0

(***************************************************************************)
(* C13: an endpoint that takes a user id in its path answers 404 when no   *)
(* stored user has that id or the user is inactive; it never answers such  *)
(* an id with a successful result.  The mapper binding's energy-stats and  *)
(* daily-stats handlers do not look the user up and answer 200.            *)
(***************************************************************************)
C13_UnknownIdAnswersNotFound ==
    ( /\ resp.op \in {"energy_stats", "daily_stats", "compare_usage"}
      /\ \/ resp.req.user_id \notin DOMAIN users
         \/ ~users[resp.req.user_id].is_active )
    => resp.status = 404

(***************************************************************************)
(* Reference definitions for the AI endpoints: the external function is    *)
(* unavailable when the deployment has no client or the call raises; its   *)
(* response is malformed when it is not the structured result asked for.   *)
(***************************************************************************)
AIOps == {"recommendations", "energy_analysis", "optimization_tips", "efficiency_report"}

AIUnavailable == ~resp.req.ai.client \/ resp.req.ai.reply = "raises"

AIMalformed == resp.req.ai.reply \in {"none", "text", "array", "object"}

ServiceCalled == resp.op \in AIOps /\ "service" \in DOMAIN resp

(***************************************************************************)
(* C11: whenever the client is missing, the external call raises or the    *)
(* external response is not the structured result asked for, the value     *)
(* get_energy_recommendations returns is the static fallback: an object    *)
(* whose recommendations are a non-empty list of strings and whose         *)
(* efficiency_score is a number in 0..100.  A response that parses as      *)
(* JSON is returned whatever its structure.                                *)
(***************************************************************************)
C11_MalformedResponseFallsBack ==
    (ServiceCalled /\ resp.op = "recommendations" /\ (AIUnavailable \/ AIMalformed)) =>
        /\ resp.service.kind = "object"
        /\ resp.service.fields.recommendations.t = "strlist"
        /\ resp.service.fields.recommendations.items # <<>>
        /\ resp.service.fields.efficiency_score.t = "num"
        /\ resp.service.fields.efficiency_score.n \in 0..100
        /\ resp.service.fields.energy_savings_potential = Str("15-25%")

(***************************************************************************)
(* C12: for a stored user or device, an AI endpoint whose external         *)
(* function is unavailable does not answer 500, and answers 200 unless it  *)
(* is the energy analysis of a period without readings.  The fallback's    *)
(* potential savings are strings, which the response models and the        *)
(* accumulation of savings reject.                                         *)
(***************************************************************************)
C12_FallbackAccepted ==
    ( /\ resp.op \in AIOps
      /\ AIUnavailable
      /\ IF resp.op = "optimization_tips" THEN resp.req.device_id \in DOMAIN devices
         ELSE resp.req.user_id \in DOMAIN users )
    => /\ resp.status # 500
       /\ resp.op # "energy_analysis" => resp.status = 200

(***************************************************************************)
(* Properties of the step-by-step handlers.                                *)
(***************************************************************************)
\* no handler is suspended: every request received so far has been answered
Quiescent == \A p \in Procs : inflight[p].pc = "idle"

\* C14: referential integrity under interleaving.  Whenever every request
\* has been answered, each stored reading's device_id names a stored device
\* and each stored device's user_id names a stored user.
C14_ReferentialIntegrity ==
    Quiescent =>
        /\ \A i \in 1..Len(energy_data) : energy_data[i].device_id \in DOMAIN devices
        /\ \A d \in DOMAIN devices : devices[d].user_id \in DOMAIN users

\* C15: every stored reading has consumption >= 0, production >= 0, a cost
\* >= 0 when present and a humidity in 0..100 when present, and no rolling
\* counter of a device or a user is negative.
C15_StoredReadingsInBounds ==
    /\ \A i \in 1..Len(energy_data) :
          LET r == energy_data[i]
          IN  /\ r.energy_consumption_kwh >= 0
              /\ r.energy_production_kwh >= 0
              /\ IsSome(r.total_cost) => Get(r.total_cost) >= 0
              /\ IsSome(r.humidity) => Get(r.humidity) \in 0..100
    /\ \A d \in DOMAIN devices :
          devices[d].total_energy_consumed >= 0 /\ devices[d].total_energy_produced >= 0
    /\ \A u \in DOMAIN users :
          users[u].total_energy_consumed >= 0 /\ users[u].total_energy_produced >= 0

\* C16: no two stored users have the same email, and no two stored users
\* have the same username.
C16_UniqueIdentity ==
    \A u, v \in DOMAIN users :
        u # v => /\ users[u].email # users[v].email
                 /\ users[u].username # users[v].username

\* the positions of the stored readings with this value of this field
ReadingsOf(key, id) == {i \in 1..Len(energy_data) : energy_data[i][key] = id}

\* the totals of every stored device and user are the sums over the stored
\* readings of that device and of that user
CountersMatchReadings ==
    /\ \A d \in DOMAIN devices :
          /\ devices[d].total_energy_consumed = SumOver(ReadingsOf("device_id", d), Consumption)
          /\ devices[d].total_energy_produced = SumOver(ReadingsOf("device_id", d), Production)
    /\ \A u \in DOMAIN users :
          /\ users[u].total_energy_consumed = SumOver(ReadingsOf("user_id", u), Consumption)
          /\ users[u].total_energy_produced = SumOver(ReadingsOf("user_id", u), Production)

\* C17: after any completed sequence of create_energy_data, delete_device
\* and delete_user requests, served one at a time, the rolling totals of
\* each stored device and user equal the sums over its stored readings.
C17_CountersMatchAfterSequence == Quiescent => CountersMatchReadings

\* the values of this field in the readings that suspended handlers have
\* stored for this device or user (key, id) and not yet added to its totals:
\* the handlers suspended at one of the store operations pcs
Pending(pcs, key, id, field) ==
    SumOver(Procs,
            [p \in Procs |->
                IF inflight[p].pc \in pcs /\ inflight[p].data[key] = id
                THEN inflight[p].data[field] ELSE 0])

\* C18: concurrent create_energy_data requests lose no counter update.  In
\* every state of every interleaving, the totals of each device and of each
\* user are the sums over the stored readings less the readings whose
\* handler has not yet reached its increment; so once both requests are
\* answered the totals have grown by the values of both readings.
C18_NoLostUpdate ==
    /\ \A d \in DOMAIN devices :
          /\ devices[d].total_energy_consumed
                 + Pending({"update_device_statistics"}, "device_id", d,
                           "energy_consumption_kwh")
               = SumOver(ReadingsOf("device_id", d), Consumption)
          /\ devices[d].total_energy_produced
                 + Pending({"update_device_statistics"}, "device_id", d,
                           "energy_production_kwh")
               = SumOver(ReadingsOf("device_id", d), Production)
    /\ \A u \in DOMAIN users :
          /\ users[u].total_energy_consumed
                 + Pending({"update_device_statistics", "update_user_statistics"},
                           "user_id", u, "energy_consumption_kwh")
               = SumOver(ReadingsOf("user_id", u), Consumption)
          /\ users[u].total_energy_produced
                 + Pending({"update_device_statistics", "update_user_statistics"},
                           "user_id", u, "energy_production_kwh")
               = SumOver(ReadingsOf("user_id", u), Production)

\* two readings of the same device are stored, every request is answered,
\* and the handler that answered last had started while the other was
\* suspended
C18_Witness ==
    /\ Quiescent
    /\ resp.op = "create_energy_data" /\ resp.status = 200 /\ resp.overlapped
    /\ Len(energy_data) = 2
    /\ energy_data[1].device_id = energy_data[2].device_id
    /\ devices[energy_data[1].device_id].total_energy_consumed =
           energy_data[1].energy_consumption_kwh + energy_data[2].energy_consumption_kwh

(***************************************************************************)
(* Properties of the aggregation operations as a whole.                    *)
(***************************************************************************)
AggregationOps == {"energy_stats", "daily_stats", "compare_usage"}

\* C19: the aggregation operations leave the store unchanged.  Every step
\* that ends with the answer of an aggregation operation, a success or a
\* failure, leaves the users, the devices and the readings, with every field
\* and rolling counter, as they were.
C19_AggregationReadsOnly ==
    [][resp'.op \in AggregationOps => UNCHANGED <<users, devices, energy_data>>]_vars

\* an aggregation has answered over a store that holds readings and rolling
\* counters
C19_Witness ==
    /\ resp.op \in AggregationOps
    /\ resp.status \in {200, 400, 404}
    /\ Len(energy_data) = MaxAggregateReadings
    /\ \E i \in 1..Len(energy_data) : energy_data[i].user_id = resp.req.user_id

\* the collection in every order the store may hold or return it
Reorderings(coll) ==
    { [i \in 1..Len(coll) |-> coll[f[i]]] :
        f \in { g \in [1..Len(coll) -> 1..Len(coll)] :
                  \A i, j \in 1..Len(coll) : g[i] = g[j] => i = j } }

\* the answer of the period statistics is the one this collection gives
SameStats(coll) ==
    LET r == resp.req
        result == GroupStats(Match(coll, r.user_id, Get(r.start_date), Get(r.end_date)))
        stats == IF result = <<>>
                 THEN [EmptyStats EXCEPT !.average_power_consumption = Some(Zero),
                                         !.peak_power_consumption = Some(0)]
                 ELSE result[1]
    IN  resp.body = Period(stats, Get(r.start_date), Get(r.end_date))

SameStatsMongo(coll) ==
    LET r == resp.req
        result == GroupStatsMongo(Match(coll, r.user_id, Get(r.start_date),
                                        Get(r.end_date)))
    IN  IF result = <<>> THEN resp.body.device_count = 0
        ELSE /\ resp.body.total_consumption_kwh = result[1].total_consumption
             /\ resp.body.total_production_kwh = result[1].total_production
             /\ resp.body.total_cost_usd = result[1].total_cost
             /\ resp.body.average_power_watts = result[1].avg_power
             /\ resp.body.peak_power_watts = result[1].peak_power
             /\ resp.body.device_count = result[1].device_count

\* the answer of the daily statistics is the one this collection gives, for
\* the interval of the request (the days before the instant it was made at)
SameDaily(coll) ==
    LET r == resp.req
        result == DailyPipeline(coll, r.user_id, r.at - Days(r.days), r.at)
    IN  /\ Len(resp.body) = Len(result)
        /\ \A i \in 1..Len(result) :
              /\ resp.body[i].date = FormatDate(result[i]._id)
              /\ resp.body[i].total_energy_consumed = result[i].total_energy_consumed
              /\ resp.body[i].total_energy_produced = result[i].total_energy_produced
              /\ resp.body[i].total_cost = result[i].total_cost
              /\ resp.body[i].average_power_consumption =
                     result[i].average_power_consumption
              /\ resp.body[i].peak_power_consumption = result[i].peak_power_consumption

SameDailyMongo(coll) ==
    LET r == resp.req
        result == DailyPipelineMongo(coll, r.user_id, r.at - Days(r.days), r.at)
    IN  /\ Len(resp.body) = Len(result)
        /\ \A i \in 1..Len(result) :
              /\ resp.body[i].date = result[i]._id
              /\ resp.body[i].consumption_kwh = result[i].consumption
              /\ resp.body[i].production_kwh = result[i].production
              /\ resp.body[i].cost_usd = result[i].cost

\* the answer of the comparison is the one this collection gives
SameComparison(coll) ==
    LET r == resp.req
        current == PeriodStats(coll, r.user_id, r.start_date, r.end_date)
        prior == PeriodStats(coll, r.user_id, Get(r.comparison_start_date),
                             Get(r.comparison_end_date))
        changes == Changes(current, prior)
    IN  /\ resp.body.current_period = Period(current, r.start_date, r.end_date)
        /\ resp.body.comparison_period =
               Some(Period(prior, Get(r.comparison_start_date),
                           Get(r.comparison_end_date)))
        /\ resp.body.percentage_change = changes.percentage_change
        /\ resp.body.cost_savings = changes.cost_savings
        /\ resp.body.energy_savings = changes.energy_savings

\* C20: the same aggregation over the same interval and an unchanged set of
\* readings gives the same output again, in whatever order the store holds
\* the readings: the last successful answer is the one every reordering of
\* the collection gives for the request's interval.
C20_SameOutputInAnyOrder ==
    (resp.op \in AggregationOps /\ resp.status = 200) =>
        \A coll \in Reorderings(energy_data) :
            CASE resp.op = "energy_stats" /\ variant = "raw" -> SameStats(coll)
              [] resp.op = "energy_stats" /\ variant = "odm" -> SameStatsMongo(coll)
              [] resp.op = "daily_stats" /\ variant = "raw" -> SameDaily(coll)
              [] resp.op = "daily_stats" /\ variant = "odm" -> SameDailyMongo(coll)
              [] OTHER -> SameComparison(coll)

\* daily statistics have answered with two buckets over readings stored
\* latest first
C20_Witness ==
    /\ resp.op = "daily_stats" /\ resp.status = 200 /\ variant = "raw"
    /\ Len(resp.body) = 2
    /\ Len(energy_data) = 2
    /\ energy_data[1].timestamp > energy_data[2].timestamp

(***************************************************************************)
(* Properties of the mutating endpoints.                                   *)
(***************************************************************************)
\* the step ends a request: no handler is left suspended at a new store
\* operation by it
Answers == \A p \in Procs : inflight'[p] # inflight[p] => inflight'[p].pc = "idle"

\* C21: a request that ends with a not-found or validation error has made no
\* store mutation.  Every step that answers 400 or 404 leaves users, devices
\* and readings (with counters and last_seen) as they were, and the handler
\* it ends had not written before: it was at its lookup or at the first
\* write of an update, which matched no document.
C21_ErrorsMutateNothing ==
    [][ (Answers /\ resp'.status \in {400, 404}) =>
           /\ UNCHANGED <<users, devices, energy_data>>
           /\ \A p \in Procs :
                 inflight'[p] # inflight[p] =>
                     inflight[p].pc \in {"update_user", "update_device"} ]_vars

\* an update has found its document deleted at its write and answered 400,
\* and the store still holds documents
C21_Witness ==
    /\ resp.status = 400
    /\ resp.op \in {"update_user", "update_device"}
    /\ DOMAIN users # {}
    /\ DOMAIN devices # {}

\* C22: the hard deletes cascade.  With requests served one at a time, when
\* delete_user(u) has answered the store holds no user u, no device of u and
\* no reading of u; when delete_device(d) has answered it holds no device d
\* and no reading of d.
C22_HardDeleteCascades ==
    (Quiescent /\ resp.status = 200) =>
        /\ resp.op = "delete_user" =>
              /\ resp.req.user_id \notin DOMAIN users
              /\ \A d \in DOMAIN devices : devices[d].user_id # resp.req.user_id
              /\ \A i \in 1..Len(energy_data) :
                    energy_data[i].user_id # resp.req.user_id
        /\ resp.op = "delete_device" =>
              /\ resp.req.device_id \notin DOMAIN devices
              /\ \A i \in 1..Len(energy_data) :
                    energy_data[i].device_id # resp.req.device_id

\* delete_device has answered, no reading is left, and the owner's total
\* shows that readings of its devices had been stored
C22_Witness ==
    /\ Quiescent
    /\ resp.op = "delete_device" /\ resp.status = 200
    /\ energy_data = <<>>
    /\ "u1" \in DOMAIN users
    /\ users["u1"].total_energy_consumed > 0


\* C23: in the soft-deleting variant no endpoint removes a user or a device,
\* and a user or device that is inactive is never active again.
C23_InactiveStaysInactive ==
    [][ /\ DOMAIN users \subseteq DOMAIN users'
        /\ DOMAIN devices \subseteq DOMAIN devices'
        /\ \A u \in DOMAIN users : ~users[u].is_active => ~users'[u].is_active
        /\ \A d \in DOMAIN devices :
              ~devices[d].is_active => ~devices'[d].is_active ]_vars


\* C26: in the raw variant, whenever every request has been answered, each
\* stored user's device_count is the number of stored devices the user owns,
\* and it is never negative.
C26_DeviceCountMatches ==
    /\ \A u \in DOMAIN users : users[u].device_count >= 0
    /\ Quiescent =>
          \A u \in DOMAIN users :
             users[u].device_count =
                Cardinality({d \in DOMAIN devices : devices[d].user_id = u})


\* the reading of a device that was created last
LatestCreated(device_id) ==
    LET own == ReadingsOf("device_id", device_id)
    IN  energy_data[CHOOSE i \in own : \A j \in own : j <= i]

\* C27: in the raw variant, with requests served one at a time, a device
\* that has readings carries the timestamp and the power draw of the reading
\* created last, whatever the readings' timestamps are.
C27_LatestCreatedWins ==
    variant = "raw" =>
        \A d \in DOMAIN devices :
           ReadingsOf("device_id", d) # {} =>
              /\ devices[d].last_energy_reading = Some(LatestCreated(d).timestamp)
              /\ devices[d].current_power_draw =
                    LatestCreated(d).power_consumption_watts

\* two readings of d1, the second older than the first: the device carries
\* the second one's timestamp
C27_Witness ==
    /\ variant = "raw"
    /\ Len(energy_data) = 2
    /\ energy_data[1].device_id = "d1" /\ energy_data[2].device_id = "d1"
    /\ energy_data[2].timestamp < energy_data[1].timestamp
    /\ energy_data[2].power_consumption_watts # energy_data[1].power_consumption_watts
    /\ devices["d1"].last_energy_reading = Some(energy_data[2].timestamp)


\* C28: when get_user_energy_stats is asked with one bound only, the window
\* it reports has start <= end, and with only an end_date more than the
\* default window before the clock the window is the default window ending at
\* end_date.
C28_OneBoundWindow ==
    [][ ( /\ now' = now
          /\ resp'.op = "energy_stats" /\ resp'.status = 200
          /\ IsSome(resp'.req.start_date) # IsSome(resp'.req.end_date) ) =>
             /\ resp'.body.period_start <= resp'.body.period_end
             /\ ( /\ IsSome(resp'.req.end_date)
                  /\ Get(resp'.req.end_date) < now - Days(DefaultWindowDays) ) =>
                    /\ resp'.body.period_end = Get(resp'.req.end_date)
                    /\ resp'.body.period_start =
                          Get(resp'.req.end_date) - Days(DefaultWindowDays) ]_vars


\* C29: the efficiency report of a stored user is produced whatever the
\* devices' ratings are; every device's efficiency_score lies in 0..100 and
\* is 0 for a device whose power rating is absent, null or 0; the overall
\* score is the mean of the device scores, and 0 for a user without devices.
C29_EfficiencyScores ==
    (resp.op = "efficiency_report" /\ resp.req.user_id \in DOMAIN users) =>
        /\ resp.status = 200
        /\ LET reports == resp.body.device_reports
               overall == resp.body.overall_efficiency_score
               total == RatSum([i \in 1..Len(reports) |-> reports[i].efficiency_score])
           IN  /\ \A i \in 1..Len(reports) :
                     LET score == reports[i].efficiency_score
                         rating == DeviceProfile(reports[i].device_id).power_rating_watts
                     IN  /\ score[1] >= 0
                         /\ score[1] <= 100 * score[2]
                         /\ rating \in {None, Some(0)} => score = Zero
               /\ reports = <<>> => overall = Zero
               /\ reports # <<>> =>
                     overall[1] * total[2] * Len(reports) = total[1] * overall[2]


\* C30: create_energy_data of the raw variant is all-or-nothing, also when a
\* store call fails and it answers 500: once it has answered, every stored
\* reading is counted in the totals of its device and of its user, and a
\* reading that is not stored is counted in none.
C30_AllOrNothing ==
    (Quiescent /\ resp.op = "create_energy_data" /\ resp.status \in {200, 500}) =>
        CountersMatchReadings


\* C24: the sample of readings in the context sent to the AI function holds
\* at most 10 readings for the pattern analysis and at most 5 for the device
\* tips, and they are the readings with the greatest timestamps of the
\* queried set.
C24_BoundedRecentSample ==
    [][ /\ (resp'.op = "energy_analysis" /\ energy_data' = energy_data) =>
              LET queried == Field(Match(energy_data, resp'.req.user_id,
                                         SampleRequest.start_date,
                                         SampleRequest.end_date), "timestamp")
              IN  /\ Len(resp'.sample) <= 10
                  /\ Descending(resp'.sample) =
                        Limit(Descending(queried), Len(resp'.sample))
        /\ (resp'.op = "optimization_tips" /\ energy_data' = energy_data) =>
              LET queried == Field(MatchSince(energy_data, "device_id",
                                              resp'.req.device_id,
                                              now - Days(DefaultWindowDays)),
                                   "timestamp")
              IN  /\ Len(resp'.sample) <= 5
                  /\ Descending(resp'.sample) =
                        Limit(Descending(queried), Len(resp'.sample)) ]_vars


\* C25: the store handle follows connect, initialise, serve, close.  The ODM
\* is initialised with a connected database only, the API serves with a
\* connected database only, a handler never obtains an unset handle, and
\* the API has closed its client when it has exited after serving.
C25_ConnectInitialiseServeClose ==
    /\ mongo.beanie # "unset"
    /\ mongo.pc = "serving" => mongo.mongodb_database = "set"
    /\ ("database" \in DOMAIN resp) => resp.database = "set"
    /\ (mongo.pc = "exited" /\ mongo.beanie = "set") => mongo.mongodb_client = "closed"

====
